---- MODULE Spec2Model ----
(***************************************************************************)
(* A model of editpe: the PE image parser, the image rewriter              *)
(* (Image::set_resource_directory) and the resource directory tree         *)
(* (ResourceTable parse / build / insert / remove).                        *)
(*                                                                         *)
(* Images and resource sections are byte sequences (values 0..255), read   *)
(* and written little-endian exactly as the zerocopy records of types.rs   *)
(* lay them out.  Offsets are 0-based as in the source; Slice(b, from, to) *)
(* is the Rust slice b[from..to].                                          *)
(***************************************************************************)
EXTENDS Integers, Sequences, FiniteSets, TLC

\* ------------------------------------------------------------------ bytes

Slice(b, from, to) == SubSeq(b, from + 1, to)

Zeros(n) == [i \in 1..n |-> 0]

Min(a, b) == IF a < b THEN a ELSE b

\* `let x = v; F(x)`: v is evaluated once and F works on its value
With(v, F(_)) == CHOOSE r \in {F(x) : x \in {v}} : TRUE

\* u16::to_le_bytes / u32::to_le_bytes (zerocopy IntoBytes on a little-endian target)
LE16(n) == <<n % 256, (n \div 256) % 256>>

LE32(n) == <<n % 256, (n \div 256) % 256, (n \div 65536) % 256, (n \div 16777216) % 256>>

Rd16(b, off) == b[off + 1] + 256 * b[off + 2]

Rd32(b, off) == b[off + 1] + 256 * b[off + 2] + 65536 * b[off + 3] + 16777216 * b[off + 4]

\* A u32 whose bit 31 is a flag (0x80000000): hi is the flag, lo the other 31 bits.
Flagged(hi, lo) == [hi |-> hi, lo |-> lo]

RdFlagged(b, off) ==
    Flagged(b[off + 4] >= 128,
            b[off + 1] + 256 * b[off + 2] + 65536 * b[off + 3] + 16777216 * (b[off + 4] % 128))

FlaggedBytes(f) ==
    <<f.lo % 256, (f.lo \div 256) % 256, (f.lo \div 65536) % 256,
      ((f.lo \div 16777216) % 128) + (IF f.hi THEN 128 ELSE 0)>>

\* util::read::<T>(&image[off..]) for a T of n bytes: the slice panics when off is past
\* the end, read_from_prefix fails when fewer than n bytes are left.
read(b, off, n) ==
    IF off > Len(b) THEN "Panic" ELSE IF Len(b) - off < n THEN "Err" ELSE "Ok"

\* n consecutive reads of `size` bytes each, propagated with `?`: the first failure.
read_each(b, off, n, size) ==
    IF n = 0 THEN "Ok"
    ELSE IF off > Len(b) THEN "Panic"
    ELSE IF off + n * size <= Len(b) THEN "Ok" ELSE "Err"

aligned_to(value, alignment) ==
    IF value % alignment = 0 THEN value ELSE value + alignment - (value % alignment)

\* -------------------------------------------------------------- constants

PE_DOS_MAGIC == 23117
PE_PTR_OFFSET == 60
PE_NT_SIGNATURE == 17744
PE_32_MAGIC == 267
PE_64_MAGIC == 523
IMAGE_SCN_CNT_INITIALIZED_DATA == 64
IMAGE_SCN_MEM_READ == 1073741824
LANGUAGE_ID_EN_US == 1033
CODE_PAGE_ID_EN_US == 1200
RT_ICON == 3
RT_GROUP_ICON == 14
RT_VERSION == 16
RT_MANIFEST == 24

\* ".pedata\0" as bytes (u64::from_le_bytes and back is the identity on the 8 bytes)
PEDATA_NAME == <<46, 112, 101, 100, 97, 116, 97, 0>>

\* Option
None == [some |-> FALSE]

Some(v) == [some |-> TRUE, value |-> v]

\* ------------------------------------------------- resource entry names

ID(n) == [kind |-> "ID", id |-> n, data |-> <<>>]

Name(bytes) == [kind |-> "Name", id |-> 0, data |-> bytes]

\* A string is a sequence of Unicode scalar values.  str::len() is the UTF-8 length.
Utf8Len(c) == IF c < 128 THEN 1 ELSE IF c < 2048 THEN 2 ELSE IF c < 65536 THEN 3 ELSE 4

RECURSIVE str_len(_)
str_len(s) == IF s = <<>> THEN 0 ELSE Utf8Len(s[1]) + str_len(Tail(s))

\* str::encode_utf16 followed by to_le_bytes of every unit
RECURSIVE encode_utf16_le(_)
encode_utf16_le(s) ==
    IF s = <<>> THEN <<>>
    ELSE (IF s[1] < 65536
          THEN LE16(s[1])
          ELSE LE16(55296 + ((s[1] - 65536) \div 1024)) \o LE16(56320 + ((s[1] - 65536) % 1024)))
         \o encode_utf16_le(Tail(s))

from_string(s) == Name(LE16(str_len(s) % 65536) \o encode_utf16_le(s))

\* The loop of ResourceEntryName::to_string over the units `i`.. of the `length` the
\* prefix announces: &data[i * 2..] panics behind the end of the data, the unwrap of
\* read panics when fewer than two bytes are left, and the unwrap of char::from_u32
\* panics on a surrogate.
RECURSIVE to_string_units(_, _, _)
to_string_units(data, i, length) ==
    IF i >= length THEN [res |-> "Ok", string |-> <<>>]
    ELSE IF read(data, i * 2, 2) # "Ok" THEN [res |-> "Panic", string |-> <<>>]
    ELSE IF Rd16(data, i * 2) >= 55296 /\ Rd16(data, i * 2) < 57344
    THEN [res |-> "Panic", string |-> <<>>]
    ELSE LET rest == to_string_units(data, i + 1, length)
         IN [res |-> rest.res, string |-> <<Rd16(data, i * 2)>> \o rest.string]

\* ResourceEntryName::to_string
to_string(name) ==
    IF name.kind = "ID" THEN [res |-> "Ok", value |-> None]
    ELSE IF read(name.data, 0, 2) # "Ok" THEN [res |-> "Panic", value |-> None]
    ELSE LET units == to_string_units(Slice(name.data, 2, Len(name.data)), 0,
                                      Rd16(name.data, 0))
         IN IF units.res # "Ok" THEN [res |-> "Panic", value |-> None]
            ELSE [res |-> "Ok", value |-> Some(units.string)]

string_size(name) == IF name.kind = "ID" THEN 0 ELSE Len(name.data)

string_data(name) == IF name.kind = "ID" THEN <<>> ELSE name.data

\* ------------------------------------------------------ resource tables

\* types::ResourceDirectoryTable, 16 bytes
ResourceDirectoryTable(names, ids) ==
    [characteristics |-> 0, time_date_stamp |-> 0, version |-> <<0, 0>>,
     number_of_name_entries |-> names, number_of_id_entries |-> ids]

ResourceDirectoryTableBytes(t) ==
    LE32(t.characteristics) \o LE32(t.time_date_stamp) \o LE16(t.version[1]) \o LE16(t.version[2])
    \o LE16(t.number_of_name_entries) \o LE16(t.number_of_id_entries)

RdResourceDirectoryTable(b, off) ==
    [characteristics |-> Rd32(b, off), time_date_stamp |-> Rd32(b, off + 4),
     version |-> <<Rd16(b, off + 8), Rd16(b, off + 10)>>,
     number_of_name_entries |-> Rd16(b, off + 12), number_of_id_entries |-> Rd16(b, off + 14)]

\* ResourceTable { data, entries }: entries is the IndexMap as its sequence of
\* (name, entry) pairs in index order.
ResourceTable(data, entries) == [data |-> data, entries |-> entries]

DefaultTable == ResourceTable(ResourceDirectoryTable(0, 0), <<>>)

\* ResourceEntry::Table / ResourceEntry::Data(ResourceData { data, codepage, reserved })
TableEntry(table) == [kind |-> "Table", table |-> table]

DataEntry(data, codepage, reserved) ==
    [kind |-> "Data", data |-> data, codepage |-> codepage, reserved |-> reserved]

Pair(name, entry) == [name |-> name, entry |-> entry]

\* IndexMap::get_index_of
IndexOf(entries, name) ==
    IF \E i \in 1..Len(entries) : entries[i].name = name
    THEN CHOOSE i \in 1..Len(entries) : entries[i].name = name
    ELSE 0

\* IndexMap::insert: a present key keeps its index and gets the new value, a new key
\* goes last.
MapInsert(entries, name, entry) ==
    LET i == IndexOf(entries, name)
    IN IF i = 0 THEN Append(entries, Pair(name, entry))
       ELSE [entries EXCEPT ![i] = Pair(name, entry)]

\* #[derive(PartialEq)] on ResourceTable / ResourceEntry / ResourceData; IndexMap's
\* PartialEq compares the two maps key by key and ignores the order of the entries.
RECURSIVE TableEq(_, _)
EntryEq(a, b) ==
    /\ a.kind = b.kind
    /\ IF a.kind = "Table" THEN TableEq(a.table, b.table) ELSE a = b

TableEq(a, b) ==
    /\ a.data = b.data
    /\ Len(a.entries) = Len(b.entries)
    /\ \A i \in 1..Len(a.entries) :
          LET j == IndexOf(b.entries, a.entries[i].name)
          IN j # 0 /\ EntryEq(a.entries[i].entry, b.entries[j].entry)

\* ResourceTable::size and its four parts, ResourceEntry::table_size etc.
RECURSIVE tables_size(_), strings_size(_), descriptions_size(_), data_size(_)
\* a table_size that leaves out the 8 bytes of the entry naming a sub-table
table_size_without_entry(entry) == IF entry.kind = "Table" THEN tables_size(entry.table) ELSE 8

table_size(entry) == IF entry.kind = "Table" THEN tables_size(entry.table) + 8 ELSE 8

tables_size(t) ==
    LET n == Len(t.entries)
        f[i \in 0..n] == IF i = 0 THEN 0 ELSE f[i - 1] + table_size(t.entries[i].entry)
    IN f[n] + 16

strings_size(t) ==
    LET n == Len(t.entries)
        f[i \in 0..n] ==
            IF i = 0 THEN 0
            ELSE f[i - 1] + string_size(t.entries[i].name)
                 + (IF t.entries[i].entry.kind = "Table"
                    THEN strings_size(t.entries[i].entry.table) ELSE 0)
    IN f[n]

descriptions_size(t) ==
    LET n == Len(t.entries)
        f[i \in 0..n] ==
            IF i = 0 THEN 0
            ELSE f[i - 1] + (IF t.entries[i].entry.kind = "Table"
                             THEN descriptions_size(t.entries[i].entry.table) ELSE 16)
    IN f[n]

data_size(t) ==
    LET n == Len(t.entries)
        f[i \in 0..n] ==
            IF i = 0 THEN 0
            ELSE f[i - 1] + (IF t.entries[i].entry.kind = "Table"
                             THEN data_size(t.entries[i].entry.table)
                             ELSE Len(t.entries[i].entry.data))
    IN f[n]

size(t) == tables_size(t) + strings_size(t) + descriptions_size(t) + data_size(t)

\* ResourceTable::insert
insert(t, name, entry) ==
    LET fresh == IndexOf(t.entries, name) = 0
        data == IF ~fresh THEN t.data
                ELSE IF string_size(name) > 0
                THEN [t.data EXCEPT !.number_of_name_entries = @ + 1]
                ELSE [t.data EXCEPT !.number_of_id_entries = @ + 1]
    IN ResourceTable(data, MapInsert(t.entries, name, entry))

\* IndexMap::move_index(from, to): the entry at `from` is taken out and put at `to`
move_index(entries, from, to) ==
    LET e == entries[from]
        rest == SubSeq(entries, 1, from - 1) \o SubSeq(entries, from + 1, Len(entries))
    IN SubSeq(rest, 1, to - 1) \o <<e>> \o SubSeq(rest, to, Len(rest))

\* ResourceTable::insert_at (position is 0-based; move_index panics when it is not an
\* index of the map after the insertion)
insert_at_ok(t, name, position) ==
    position < Len(MapInsert(t.entries, name, DataEntry(<<>>, 0, 0)))

insert_at(t, name, entry, position) ==
    LET len == Len(t.entries)
        inserted == MapInsert(t.entries, name, entry)
        index == IndexOf(inserted, name) - 1
        data == IF index < len THEN t.data
                ELSE IF string_size(name) > 0
                THEN [t.data EXCEPT !.number_of_name_entries = @ + 1]
                ELSE [t.data EXCEPT !.number_of_id_entries = @ + 1]
    IN ResourceTable(data, move_index(inserted, index + 1, position + 1))

\* IndexMap::swap_remove: the last entry takes the place of the removed one
swap_remove(entries, i) ==
    LET n == Len(entries)
    IN IF i = n THEN SubSeq(entries, 1, n - 1)
       ELSE [k \in 1..(n - 1) |-> IF k = i THEN entries[n] ELSE entries[k]]

\* ResourceTable::remove
remove(t, name) ==
    LET i == IndexOf(t.entries, name)
    IN IF i = 0 THEN t
       ELSE ResourceTable(
              IF string_size(name) > 0
              THEN [t.data EXCEPT !.number_of_name_entries = @ - 1]
              ELSE [t.data EXCEPT !.number_of_id_entries = @ - 1],
              swap_remove(t.entries, i))

\* ResourceTable::get
get(t, name) == t.entries[IndexOf(t.entries, name)].entry

has(t, name) == IndexOf(t.entries, name) # 0

\* --------------------------------------------------- ResourceTable::build

\* types::ResourceDirectoryEntry (8 bytes) and types::ResourceDataEntry (16 bytes)
ResourceDirectoryEntryBytes(e) ==
    FlaggedBytes(e.name_offset_or_integer_id) \o FlaggedBytes(e.data_entry_or_subdirectory_offset)

ResourceDataEntryBytes(d) ==
    LE32(d.data_rva) \o LE32(d.size) \o LE32(d.codepage) \o LE32(d.reserved)

FlattenFrom(ss) ==
    LET f[i \in 0..Len(ss)] == IF i = 0 THEN <<>> ELSE f[i - 1] \o ss[i]
    IN f[Len(ss)]

Flatten(ss) == With(ss, FlattenFrom)

\* The first loop of build_table (lines 960-1002) over the entries from index i on.
\* tables_offset is *tables_offset after the table's own 16 bytes; acc carries the
\* four output vectors and the running offsets.
RECURSIVE build_entries(_, _, _, _, _)
build_entries(entries, i, virtual_address, tables_offset, acc) ==
    IF i > Len(entries) THEN acc
    ELSE
      LET name == entries[i].name
          entry == entries[i].entry
          name_offset_or_integer_id ==
              IF string_size(name) > 0 THEN Flagged(TRUE, acc.strings_offset)
              ELSE Flagged(FALSE, name.id)
          acc1 == [acc EXCEPT !.strings_data = @ \o string_data(name),
                              !.strings_offset = @ + string_size(name)]
          acc2 ==
              IF entry.kind = "Table"
              THEN [acc1 EXCEPT
                      !.tables_data = Append(@,
                          [kind |-> "Entry",
                           name_offset_or_integer_id |-> name_offset_or_integer_id,
                           data_entry_or_subdirectory_offset |->
                               Flagged(TRUE, tables_offset + Len(entries) * 8
                                             + acc.next_table_sizes)]),
                      !.next_table_offset = @ + 8,
                      !.next_table_sizes = @ + tables_size(entry.table)]
              ELSE [acc1 EXCEPT
                      !.tables_data = Append(@,
                          [kind |-> "Entry",
                           name_offset_or_integer_id |-> name_offset_or_integer_id,
                           data_entry_or_subdirectory_offset |->
                               Flagged(FALSE, acc.descriptions_offset)]),
                      !.next_table_offset = @ + 8,
                      !.data_data = @ \o entry.data,
                      !.descriptions_data = Append(@,
                          [data_rva |-> acc.data_offset + virtual_address,
                           size |-> Len(entry.data),
                           codepage |-> entry.codepage,
                           reserved |-> entry.reserved]),
                      !.descriptions_offset = @ + 16,
                      !.data_offset = @ + Len(entry.data)]
      IN With(acc2, LAMBDA a : build_entries(entries, i + 1, virtual_address, tables_offset, a))

\* build_table: the table, its entries, then every child table in entry order
RECURSIVE build_table(_, _, _), build_children(_, _, _, _)
build_table(self, virtual_address, offs) ==
    LET tables_offset == offs.tables_offset + 16
        acc0 == [tables_data |-> <<[kind |-> "Table", table |-> self.data]>>,
                 strings_data |-> <<>>, descriptions_data |-> <<>>, data_data |-> <<>>,
                 strings_offset |-> offs.strings_offset,
                 descriptions_offset |-> offs.descriptions_offset,
                 data_offset |-> offs.data_offset,
                 next_table_offset |-> 0, next_table_sizes |-> 0]
        Out(acc) == [tables_data |-> acc.tables_data, strings_data |-> acc.strings_data,
                     descriptions_data |-> acc.descriptions_data, data_data |-> acc.data_data,
                     tables_offset |-> tables_offset + acc.next_table_offset,
                     strings_offset |-> acc.strings_offset,
                     descriptions_offset |-> acc.descriptions_offset,
                     data_offset |-> acc.data_offset]
    IN With(With(build_entries(self.entries, 1, virtual_address, tables_offset, acc0), Out),
            LAMBDA out : build_children(self.entries, 1, virtual_address, out))

\* The second loop of build_table (lines 1005-1023)
build_children(entries, i, virtual_address, out) ==
    IF i > Len(entries) THEN out
    ELSE IF entries[i].entry.kind = "Data"
    THEN build_children(entries, i + 1, virtual_address, out)
    ELSE
      LET Joined(t) ==
              [tables_data |-> out.tables_data \o t.tables_data,
               strings_data |-> out.strings_data \o t.strings_data,
               descriptions_data |-> out.descriptions_data \o t.descriptions_data,
               data_data |-> out.data_data \o t.data_data,
               tables_offset |-> t.tables_offset,
               strings_offset |-> t.strings_offset,
               descriptions_offset |-> t.descriptions_offset,
               data_offset |-> t.data_offset]
      IN With(With(build_table(entries[i].entry.table, virtual_address,
                               [tables_offset |-> out.tables_offset,
                                strings_offset |-> out.strings_offset,
                                descriptions_offset |-> out.descriptions_offset,
                                data_offset |-> out.data_offset]),
                   Joined),
              LAMBDA joined : build_children(entries, i + 1, virtual_address, joined))

\* ResourceTable::build: the offsets are patched once the region sizes are known
ResourceTable_build(self, virtual_address) ==
    LET Patched(r) ==
          LET TableDataBytes(d) ==
                  IF d.kind = "Table" THEN ResourceDirectoryTableBytes(d.table)
                  ELSE ResourceDirectoryEntryBytes(
                         [name_offset_or_integer_id |->
                              IF d.name_offset_or_integer_id.hi
                              THEN Flagged(TRUE, d.name_offset_or_integer_id.lo + r.tables_offset)
                              ELSE d.name_offset_or_integer_id,
                          data_entry_or_subdirectory_offset |->
                              IF ~d.data_entry_or_subdirectory_offset.hi
                              THEN Flagged(FALSE, d.data_entry_or_subdirectory_offset.lo
                                                  + r.tables_offset + r.strings_offset)
                              ELSE d.data_entry_or_subdirectory_offset])
              DescriptionBytes(d) ==
                  ResourceDataEntryBytes(
                      [d EXCEPT !.data_rva = @ + r.tables_offset + r.strings_offset
                                               + r.descriptions_offset])
          IN Flatten([i \in 1..Len(r.tables_data) |-> TableDataBytes(r.tables_data[i])])
             \o r.strings_data
             \o Flatten([i \in 1..Len(r.descriptions_data) |->
                           DescriptionBytes(r.descriptions_data[i])])
             \o r.data_data
    IN With(build_table(self, virtual_address,
                        [tables_offset |-> 0, strings_offset |-> 0,
                         descriptions_offset |-> 0, data_offset |-> 0]),
            Patched)

\* ---------------------------------------------------- ResourceTable::parse

\* The depth of recursion the thread's stack can hold before the process aborts.
StackFrames == 6

\* ResourceEntryName::parse
ResourceEntryName_parse(image, offset, id) ==
    IF ~id.hi THEN [res |-> "Ok", name |-> ID(id.lo)]
    ELSE
      LET address == offset + id.lo
          st == read(image, address, 2)
          length == Rd16(image, address)
      IN IF st # "Ok" THEN [res |-> st, name |-> ID(0)]
         ELSE IF address + 2 + length * 2 > Len(image) THEN [res |-> "Panic", name |-> ID(0)]
         ELSE [res |-> "Ok", name |-> Name(Slice(image, address, address + 2 + length * 2))]

RECURSIVE ResourceTable_parse(_, _, _, _, _), parse_entries(_, _, _, _, _, _, _)
ResourceTable_parse(image, base_address, virtual_address, directory_offset, level) ==
    LET table_offset == base_address + directory_offset
        st == read(image, table_offset, 16)
        resource_table == RdResourceDirectoryTable(image, table_offset)
        Result(r) ==
            IF r.res # "Ok" THEN [res |-> r.res, table |-> DefaultTable]
            ELSE [res |-> "Ok", table |-> ResourceTable(resource_table, r.entries)]
    IN IF level >= StackFrames THEN [res |-> "Panic", table |-> DefaultTable]
       ELSE IF st # "Ok" THEN [res |-> st, table |-> DefaultTable]
       ELSE With(parse_entries(image, base_address, virtual_address, table_offset + 16,
                               resource_table.number_of_name_entries
                               + resource_table.number_of_id_entries,
                               <<>>, level),
                 Result)

\* The loop over the entries of one table (lines 840-903) with `remaining` iterations
\* left.  A leaf outside the image is skipped with `continue`, which also skips the
\* `entry_offset += 8` at the end of the loop body.
parse_entries(image, base_address, virtual_address, entry_offset, remaining, entries, level) ==
    IF remaining = 0 THEN [res |-> "Ok", entries |-> entries]
    ELSE
      LET st == read(image, entry_offset, 8)
          name_id == RdFlagged(image, entry_offset)
          offset == RdFlagged(image, entry_offset + 4)
          st_data == read(image, base_address + offset.lo, 16)
          data_rva == RdFlagged(image, base_address + offset.lo)
          data_size_ == RdFlagged(image, base_address + offset.lo + 4)
          codepage == Rd32(image, base_address + offset.lo + 8)
          reserved == Rd32(image, base_address + offset.lo + 12)
          \* base_address as i64 + data_rva as i64 - virtual_address as i64, then as u64:
          \* a negative value has its top bits set, and the packed-address mask
          \* 0xffffffffff000000 matches exactly the values -2^24 .. -1
          signed == base_address + data_rva.lo - virtual_address
          packed == signed < 0 /\ signed >= -16777216
          address == IF packed THEN signed + 16777216 ELSE signed
          outside == \/ data_rva.hi \/ data_size_.hi
                     \/ signed < -16777216
                     \/ address + data_size_.lo > Len(image)
          Rest(entry_offset_, entries_) ==
              With(entries_,
                   LAMBDA e : parse_entries(image, base_address, virtual_address, entry_offset_,
                                            remaining - 1, e, level))
          Table(name) ==
              IF name.res # "Ok" THEN [res |-> name.res, entries |-> entries]
              ELSE With(ResourceTable_parse(image, base_address, virtual_address, offset.lo,
                                            level + 1),
                        LAMBDA sub :
                           IF sub.res # "Ok" THEN [res |-> sub.res, entries |-> entries]
                           ELSE Rest(entry_offset + 8,
                                     MapInsert(entries, name.name, TableEntry(sub.table))))
          Data(name) ==
              IF name.res # "Ok" THEN [res |-> name.res, entries |-> entries]
              ELSE Rest(entry_offset + 8,
                        MapInsert(entries, name.name,
                                  DataEntry(Slice(image, address, address + data_size_.lo),
                                            codepage, reserved)))
      IN IF st # "Ok" THEN [res |-> st, entries |-> entries]
         ELSE IF offset.hi
         THEN With(ResourceEntryName_parse(image, base_address, name_id), Table)
         ELSE IF st_data # "Ok" THEN [res |-> st_data, entries |-> entries]
         ELSE IF outside THEN Rest(entry_offset, entries)
         ELSE With(ResourceEntryName_parse(image, base_address, name_id), Data)

\* ------------------------------------------------------ ResourceDirectory

ResourceDirectory(virtual_address, root) == [virtual_address |-> virtual_address, root |-> root]

DefaultDirectory == ResourceDirectory(0, DefaultTable)

\* #[derive(PartialEq)] on ResourceDirectory
DirEq(a, b) == a.virtual_address = b.virtual_address /\ TableEq(a.root, b.root)

ResourceDirectory_parse(image, base_address, virtual_address) ==
    LET root == ResourceTable_parse(image, base_address, virtual_address, 0, 0)
    IN [res |-> root.res, dir |-> ResourceDirectory(virtual_address, root.table)]

ResourceDirectory_size(d) == size(d.root)

ResourceDirectory_build(d, virtual_address) == ResourceTable_build(d.root, virtual_address)

\* ------------------------------------------------------------- strings
\* A string is the sequence of its Unicode scalar values.

\* str::as_bytes: the UTF-8 encoding
RECURSIVE as_bytes(_)
as_bytes(s) ==
    IF s = <<>> THEN <<>>
    ELSE LET c == s[1]
             head == IF c < 128 THEN <<c>>
                     ELSE IF c < 2048 THEN <<192 + (c \div 64), 128 + (c % 64)>>
                     ELSE IF c < 65536
                     THEN <<224 + (c \div 4096), 128 + ((c \div 64) % 64), 128 + (c % 64)>>
                     ELSE <<240 + (c \div 262144), 128 + ((c \div 4096) % 64),
                            128 + ((c \div 64) % 64), 128 + (c % 64)>>
         IN head \o as_bytes(Tail(s))

\* byte i of b continues a UTF-8 sequence
Continues(b, i) == i <= Len(b) /\ b[i] >= 128 /\ b[i] < 192

\* String::from_utf8_lossy: well-formed sequences are decoded, any other byte gives
\* U+FFFD
RECURSIVE from_utf8_lossy(_)
from_utf8_lossy(b) ==
    IF b = <<>> THEN <<>>
    ELSE IF b[1] < 128 THEN <<b[1]>> \o from_utf8_lossy(Tail(b))
    ELSE IF b[1] >= 194 /\ b[1] < 224 /\ Continues(b, 2)
    THEN <<(b[1] - 192) * 64 + (b[2] - 128)>> \o from_utf8_lossy(SubSeq(b, 3, Len(b)))
    ELSE IF b[1] >= 224 /\ b[1] < 240 /\ Continues(b, 2) /\ Continues(b, 3)
            /\ (b[1] - 224) * 4096 + (b[2] - 128) * 64 >= 2048
    THEN <<(b[1] - 224) * 4096 + (b[2] - 128) * 64 + (b[3] - 128)>>
         \o from_utf8_lossy(SubSeq(b, 4, Len(b)))
    ELSE IF b[1] >= 240 /\ b[1] < 245 /\ Continues(b, 2) /\ Continues(b, 3) /\ Continues(b, 4)
            /\ (b[1] - 240) * 262144 + (b[2] - 128) * 4096 >= 65536
    THEN <<(b[1] - 240) * 262144 + (b[2] - 128) * 4096 + (b[3] - 128) * 64 + (b[4] - 128)>>
         \o from_utf8_lossy(SubSeq(b, 5, Len(b)))
    ELSE <<65533>> \o from_utf8_lossy(Tail(b))

\* ------------------------------------------------- the manifest of a directory

\* an entry reached through get_mut and assigned: the header counts stay
put(t, name, entry) == ResourceTable(t.data, MapInsert(t.entries, name, entry))

InvalidTable(d) == [res |-> "Err", err |-> "InvalidTable", dir |-> d, value |-> None]

Done(d) == [res |-> "Ok", err |-> "", dir |-> d, value |-> None]

Got(d, value) == [res |-> "Ok", err |-> "", dir |-> d, value |-> value]

\* the entry of an inner table get_manifest reads: the one of LANGUAGE_ID_EN_US, or
\* else the first one
manifest_directory_entry(inner_table) ==
    IF has(inner_table, ID(LANGUAGE_ID_EN_US)) THEN get(inner_table, ID(LANGUAGE_ID_EN_US))
    ELSE inner_table.entries[1].entry

\* ResourceDirectory::get_manifest
get_manifest(self) ==
    IF self.root.entries = <<>> THEN Got(self, None)
    ELSE IF ~has(self.root, ID(RT_MANIFEST)) THEN Got(self, None)
    ELSE IF get(self.root, ID(RT_MANIFEST)).kind # "Table" THEN InvalidTable(self)
    ELSE LET manifest_table == get(self.root, ID(RT_MANIFEST)).table
         IN IF manifest_table.entries = <<>> THEN Got(self, None)
            ELSE IF manifest_table.entries[1].entry.kind # "Table" THEN InvalidTable(self)
            ELSE LET inner_table == manifest_table.entries[1].entry.table
                 IN IF inner_table.entries = <<>> THEN Got(self, None)
                    ELSE IF manifest_directory_entry(inner_table).kind = "Table"
                    THEN InvalidTable(self)
                    ELSE Got(self, Some(from_utf8_lossy(
                                           manifest_directory_entry(inner_table).data)))

\* ResourceDirectory::set_manifest
set_manifest(self, manifest) ==
    IF self.root.entries = <<>> THEN Done(self)
    ELSE
      LET root == IF has(self.root, ID(RT_MANIFEST)) THEN self.root
                  ELSE insert(self.root, ID(RT_MANIFEST), TableEntry(DefaultTable))
          manifest_table == get(root, ID(RT_MANIFEST)).table
          inner_table == IF manifest_table.entries = <<>> THEN DefaultTable
                         ELSE manifest_table.entries[1].entry.table
          inner == insert_at(inner_table, ID(LANGUAGE_ID_EN_US),
                             DataEntry(as_bytes(manifest), CODE_PAGE_ID_EN_US, 0), 0)
      IN IF get(root, ID(RT_MANIFEST)).kind # "Table" THEN InvalidTable(self)
         ELSE IF manifest_table.entries # <<>> /\ manifest_table.entries[1].entry.kind # "Table"
         THEN InvalidTable(self)
         ELSE Done([self EXCEPT !.root =
                      put(root, ID(RT_MANIFEST),
                          TableEntry(insert_at(manifest_table, ID(1), TableEntry(inner), 0)))])

\* ------------------------------------------------------------ VersionInfo

\* util::string_to_u16: the UTF-16 units and a terminating zero unit
string_to_u16(string) == encode_utf16_le(string) \o <<0, 0>>

\* The units util::read_u16_string reads from data: up to the first zero unit or the
\* end of the data.
RECURSIVE u16_units(_, _)
u16_units(data, i) ==
    IF i >= Len(data) \div 2 \/ Rd16(data, 2 * i) = 0 THEN <<>>
    ELSE <<Rd16(data, 2 * i)>> \o u16_units(data, i + 1)

\* util::read_u16_string: char::from_u32(c).unwrap() panics on a surrogate
read_u16_string(data) ==
    LET units == u16_units(data, 0)
    IN IF \E i \in 1..Len(units) : units[i] >= 55296 /\ units[i] < 57344
       THEN [res |-> "Panic", string |-> <<>>]
       ELSE [res |-> "Ok", string |-> units]

\* &data[from..to]: a range that is not inside the data panics
SliceOk(data, from, to) == from <= to /\ to <= Len(data)

VS_VERSION_INFO == <<86, 83, 95, 86, 69, 82, 83, 73, 79, 78, 95, 73, 78, 70, 79>>

StringFileInfo == <<83, 116, 114, 105, 110, 103, 70, 105, 108, 101, 73, 110, 102, 111>>

VarFileInfo == <<86, 97, 114, 70, 105, 108, 101, 73, 110, 102, 111>>

Translation == <<84, 114, 97, 110, 115, 108, 97, 116, 105, 111, 110>>

VersionHeaderSize == 6

FixedFileInfoSize == 52

VersionHeaderBytes(length, value_length, type_) ==
    LE16(length % 65536) \o LE16(value_length % 65536) \o LE16(type_)

RdVersionHeader(b, off) ==
    [length |-> Rd16(b, off), value_length |-> Rd16(b, off + 2), type_ |-> Rd16(b, off + 4)]

\* data.extend(iter::repeat(0).take(aligned_to(data.len(), 4) - data.len()))
Padded(data) == data \o Zeros(aligned_to(Len(data), 4) - Len(data))

VersionU16(major, minor) == [major |-> major, minor |-> minor]

VersionU16Bytes(v) == LE16(v.major) \o LE16(v.minor)

\* FixedFileInfo::default, as the 52 bytes of the structure
DefaultFixedFileInfo ==
    <<189, 4, 239, 254>> \o LE16(0) \o LE16(1) \o LE32(1) \o LE32(0) \o LE32(1) \o LE32(0)
    \o LE32(63) \o LE32(0) \o LE32(262148) \o LE32(1) \o LE32(0) \o Zeros(8)

VersionString(key, value) == [key |-> key, value |-> value]

VersionStringTable(key, strings) == [key |-> key, strings |-> strings]

VersionInfo(info, strings, vars_) == [info |-> info, strings |-> strings, vars |-> vars_]

\* IndexMap<String, String>::insert
StringIndex(strings, key) ==
    IF \E i \in 1..Len(strings) : strings[i].key = key
    THEN CHOOSE i \in 1..Len(strings) : strings[i].key = key
    ELSE 0

StringInsert(strings, key, value) ==
    IF StringIndex(strings, key) = 0 THEN Append(strings, VersionString(key, value))
    ELSE [strings EXCEPT ![StringIndex(strings, key)] = VersionString(key, value)]

\* derived PartialEq: the string maps are compared without their order
StringsEq(a, b) ==
    /\ Len(a) = Len(b)
    /\ \A i \in 1..Len(a) :
          StringIndex(b, a[i].key) # 0 /\ b[StringIndex(b, a[i].key)].value = a[i].value

VersionInfoEq(a, b) ==
    /\ a.info = b.info
    /\ a.vars = b.vars
    /\ Len(a.strings) = Len(b.strings)
    /\ \A i \in 1..Len(a.strings) :
          /\ a.strings[i].key = b.strings[i].key
          /\ StringsEq(a.strings[i].strings, b.strings[i].strings)

\* VersionInfo::build: one string of a string table
StringBytes(string) ==
    Padded(Padded(VersionHeaderBytes(aligned_to(6 + str_len(string.key) * 2 + 2, 4)
                                         + str_len(string.value) * 2 + 2,
                                     str_len(string.value) + 1, 1)
                  \o string_to_u16(string.key))
           \o string_to_u16(string.value))

\* VersionInfo::build: one string table
StringTableBytes(string_table_data) ==
    LET string_table_children ==
            Flatten([i \in 1..Len(string_table_data.strings) |->
                        StringBytes(string_table_data.strings[i])])
    IN Padded(VersionHeaderBytes(aligned_to(6 + str_len(string_table_data.key) * 2 + 2, 4)
                                     + Len(string_table_children), 0, 1)
              \o string_to_u16(string_table_data.key))
       \o string_table_children

\* VersionInfo::build
VersionInfo_build(self) ==
    LET string_tables ==
            Flatten([i \in 1..Len(self.strings) |-> StringTableBytes(self.strings[i])])
        string_info ==
            Padded(VersionHeaderBytes(aligned_to(6 + str_len(StringFileInfo) * 2 + 2, 4)
                                          + Len(string_tables), 0, 1)
                   \o string_to_u16(StringFileInfo))
            \o string_tables
        var ==
            Padded(Padded(VersionHeaderBytes(aligned_to(6 + str_len(Translation) * 2 + 2, 4)
                                                 + Len(self.vars) * 4,
                                             Len(self.vars) * 4, 0)
                          \o string_to_u16(Translation))
                   \o Flatten([i \in 1..Len(self.vars) |-> VersionU16Bytes(self.vars[i])]))
        var_info ==
            Padded(VersionHeaderBytes(aligned_to(6 + str_len(VarFileInfo) * 2 + 2, 4) + Len(var),
                                      0, 1)
                   \o string_to_u16(VarFileInfo))
            \o var
    IN Padded(Padded(VersionHeaderBytes(
                         aligned_to(aligned_to(6 + str_len(VS_VERSION_INFO) * 2 + 2, 4)
                                        + FixedFileInfoSize, 4)
                             + Len(string_info) + Len(var_info),
                         FixedFileInfoSize, 0)
                     \o string_to_u16(VS_VERSION_INFO))
              \o self.info)
       \o string_info \o var_info

\* the results of the loops of VersionInfo::parse
ParseFailed(res) == [res |-> res, strings |-> <<>>, vars |-> <<>>]

Parsed(strings, vars_) == [res |-> "Ok", strings |-> strings, vars |-> vars_]

\* the loop over the translations of the "Translation" table
RECURSIVE parse_vars(_, _, _, _)
parse_vars(data, var_offset, var_end, vars_) ==
    IF var_offset >= var_end THEN Parsed(<<>>, vars_)
    ELSE IF read(data, var_offset, 4) # "Ok" THEN ParseFailed(read(data, var_offset, 4))
    ELSE parse_vars(data, var_offset + 4, var_end,
                    Append(vars_, VersionU16(Rd16(data, var_offset), Rd16(data, var_offset + 2))))

\* the loop over the strings of one string table
RECURSIVE parse_strings(_, _, _, _)
parse_strings(data, string_offset, string_table_end, strings) ==
    LET string_header == RdVersionHeader(data, string_offset)
        key_offset == string_offset + VersionHeaderSize
        string_key == read_u16_string(Slice(data, key_offset, key_offset + string_header.length))
        value_offset == aligned_to(key_offset + str_len(string_key.string) * 2 + 2, 4)
        value_end == value_offset + string_header.value_length * 2
        string_value == read_u16_string(Slice(data, value_offset, value_end))
    IN IF string_offset >= string_table_end THEN Parsed(strings, <<>>)
       ELSE IF read(data, string_offset, VersionHeaderSize) # "Ok"
       THEN ParseFailed(read(data, string_offset, VersionHeaderSize))
       ELSE IF ~SliceOk(data, key_offset, key_offset + string_header.length)
       THEN ParseFailed("Panic")
       ELSE IF string_key.res # "Ok" THEN ParseFailed(string_key.res)
       ELSE IF string_header.value_length = 0
       THEN parse_strings(data, value_offset, string_table_end, strings)
       ELSE IF string_header.type_ # 1
       THEN parse_strings(data, aligned_to(value_end, 4), string_table_end, strings)
       ELSE IF ~SliceOk(data, value_offset, value_end) THEN ParseFailed("Panic")
       ELSE IF string_value.res # "Ok" THEN ParseFailed(string_value.res)
       ELSE parse_strings(data, aligned_to(value_end, 4), string_table_end,
                          StringInsert(strings, string_key.string, string_value.string))

\* the loop over the string tables of "StringFileInfo"
RECURSIVE parse_string_tables(_, _, _, _)
parse_string_tables(data, tables_offset, file_info_end, tables) ==
    LET string_table_header == RdVersionHeader(data, tables_offset)
        string_table_end == tables_offset + string_table_header.length
        string_table_key ==
            read_u16_string(Slice(data, tables_offset + VersionHeaderSize, string_table_end))
        strings_offset ==
            aligned_to(tables_offset + VersionHeaderSize
                           + str_len(string_table_key.string) * 2 + 2, 4)
        string_table == parse_strings(data, strings_offset, string_table_end, <<>>)
    IN IF tables_offset >= file_info_end THEN Parsed(tables, <<>>)
       ELSE IF read(data, tables_offset, VersionHeaderSize) # "Ok"
       THEN ParseFailed(read(data, tables_offset, VersionHeaderSize))
       ELSE IF ~SliceOk(data, tables_offset + VersionHeaderSize, string_table_end)
       THEN ParseFailed("Panic")
       ELSE IF string_table_key.res # "Ok" THEN ParseFailed(string_table_key.res)
       ELSE IF string_table.res # "Ok" THEN ParseFailed(string_table.res)
       ELSE parse_string_tables(data, aligned_to(string_table_end, 4), file_info_end,
                                Append(tables, VersionStringTable(string_table_key.string,
                                                                  string_table.strings)))

\* the loop over the children of the root: "StringFileInfo" and "VarFileInfo"
RECURSIVE parse_children(_, _, _, _)
parse_children(data, child_offset, strings, vars_) ==
    LET file_info_header == RdVersionHeader(data, child_offset)
        file_info_end == child_offset + file_info_header.length
        file_info_key ==
            read_u16_string(Slice(data, child_offset + VersionHeaderSize, file_info_end))
        tables_offset ==
            aligned_to(child_offset + VersionHeaderSize + str_len(file_info_key.string) * 2 + 2, 4)
        var_header == RdVersionHeader(data, tables_offset)
        var_end == tables_offset + var_header.length
        table_key == read_u16_string(Slice(data, tables_offset + VersionHeaderSize, var_end))
        vars_offset ==
            aligned_to(tables_offset + VersionHeaderSize + str_len(table_key.string) * 2 + 2, 4)
        var == parse_vars(data, vars_offset, var_end, vars_)
        string_tables == parse_string_tables(data, tables_offset, file_info_end, strings)
        next_offset == aligned_to(file_info_end, 4)
    IN IF child_offset >= Len(data) THEN Parsed(strings, vars_)
       ELSE IF read(data, child_offset, VersionHeaderSize) # "Ok"
       THEN ParseFailed(read(data, child_offset, VersionHeaderSize))
       ELSE IF ~SliceOk(data, child_offset + VersionHeaderSize, file_info_end)
       THEN ParseFailed("Panic")
       ELSE IF file_info_key.res # "Ok" THEN ParseFailed(file_info_key.res)
       ELSE IF file_info_key.string = VarFileInfo
       THEN IF read(data, tables_offset, VersionHeaderSize) # "Ok"
            THEN ParseFailed(read(data, tables_offset, VersionHeaderSize))
            ELSE IF ~SliceOk(data, tables_offset + VersionHeaderSize, var_end)
            THEN ParseFailed("Panic")
            ELSE IF table_key.res # "Ok" THEN ParseFailed(table_key.res)
            ELSE IF table_key.string # Translation THEN ParseFailed("Err")
            ELSE IF var.res # "Ok" THEN ParseFailed(var.res)
            ELSE parse_children(data, next_offset, strings, var.vars)
       ELSE IF file_info_key.string = StringFileInfo
       THEN IF string_tables.res # "Ok" THEN ParseFailed(string_tables.res)
            ELSE parse_children(data, next_offset, string_tables.strings, vars_)
       ELSE ParseFailed("Err")

\* VersionInfo::parse
VersionInfo_parse(data) ==
    LET header == RdVersionHeader(data, 0)
        version_root_key ==
            read_u16_string(Slice(data, VersionHeaderSize, VersionHeaderSize + 32))
        value_offset == aligned_to(VersionHeaderSize + str_len(version_root_key.string) * 2 + 2, 4)
        info == Slice(data, value_offset, value_offset + FixedFileInfoSize)
        file_info_header_offset == aligned_to(value_offset + FixedFileInfoSize, 4)
        children == parse_children(data, file_info_header_offset, <<>>, <<>>)
        Failed(res) == [res |-> res, version_info |-> VersionInfo(<<>>, <<>>, <<>>)]
    IN IF read(data, 0, VersionHeaderSize) # "Ok" THEN Failed(read(data, 0, VersionHeaderSize))
       ELSE IF header.length > Len(data) THEN Failed("Err")
       ELSE IF ~SliceOk(data, VersionHeaderSize, VersionHeaderSize + 32) THEN Failed("Panic")
       ELSE IF version_root_key.res # "Ok" THEN Failed(version_root_key.res)
       ELSE IF version_root_key.string # VS_VERSION_INFO THEN Failed("Err")
       ELSE IF header.value_length # FixedFileInfoSize THEN Failed("Err")
       ELSE IF read(data, value_offset, FixedFileInfoSize) # "Ok"
       THEN Failed(read(data, value_offset, FixedFileInfoSize))
       ELSE IF Slice(info, 0, 4) # <<189, 4, 239, 254>> THEN Failed("Err")
       ELSE IF children.res # "Ok" THEN Failed(children.res)
       ELSE [res |-> "Ok",
             version_info |-> VersionInfo(info, children.strings, children.vars)]

\* ResourceDirectory::set_version_info
set_version_info(self, version_info) ==
    LET root == IF has(self.root, ID(RT_VERSION)) THEN self.root
                ELSE insert(self.root, ID(RT_VERSION), TableEntry(DefaultTable))
        version_table == get(root, ID(RT_VERSION)).table
        inner_table == IF version_table.entries = <<>> THEN DefaultTable
                       ELSE version_table.entries[1].entry.table
        inner == insert_at(inner_table, ID(LANGUAGE_ID_EN_US),
                           DataEntry(VersionInfo_build(version_info), CODE_PAGE_ID_EN_US, 0), 0)
    IN IF get(root, ID(RT_VERSION)).kind # "Table" THEN InvalidTable(self)
       ELSE IF version_table.entries # <<>> /\ version_table.entries[1].entry.kind # "Table"
       THEN InvalidTable(self)
       ELSE Done([self EXCEPT !.root =
                    put(root, ID(RT_VERSION),
                        TableEntry(insert_at(version_table, ID(1), TableEntry(inner), 0)))])

\* --------------------------------------------------- the main icon of a directory

IconDirectorySize == 6

IconDirectoryEntrySize == 14

MAINICON == <<77, 65, 73, 78, 73, 67, 79, 78>>

IconDirectoryBytes(count) == LE16(0) \o LE16(1) \o LE16(count % 65536)

InvalidBytes(d) == [res |-> "Err", err |-> "InvalidBytes", dir |-> d, value |-> None]

Panicked(d) == [res |-> "Panic", err |-> "", dir |-> d, value |-> None]

\* The loop of ToIcon::icons over the images i.. of an icon file
RECURSIVE icons_from(_, _, _)
icons_from(self, i, count) ==
    LET size_ == Rd32(self, 6 + i * 16 + 8)
        offset == Rd32(self, 6 + i * 16 + 12)
        rest == icons_from(self, i + 1, count)
    IN IF i >= count THEN [res |-> "Ok", icons |-> <<>>]
       ELSE IF Len(self) < 6 + i * 16 + 16 THEN [res |-> "Err", icons |-> <<>>]
       ELSE IF offset + size_ > Len(self) THEN [res |-> "Err", icons |-> <<>>]
       ELSE [res |-> rest.res, icons |-> <<Slice(self, offset, offset + size_)>> \o rest.icons]

\* ToIcon::icons for a byte slice
icons(self) ==
    IF Len(self) < 22 THEN [res |-> "Err", icons |-> <<>>]
    ELSE IF Rd16(self, 2) # 1 THEN [res |-> "Err", icons |-> <<>>]
    ELSE IF Rd16(self, 4) < 1 THEN [res |-> "Err", icons |-> <<>>]
    ELSE icons_from(self, 0, Rd16(self, 4))

\* the largest id among the keys of a table, 0 without one
max_id(t) ==
    LET ids == {t.entries[i].name.id : i \in {j \in 1..Len(t.entries) : t.entries[j].name.kind = "ID"}}
    IN IF ids = {} THEN 0 ELSE CHOOSE m \in ids : \A n \in ids : n <= m

\* The loop of set_main_icon that adds the icons i.. to the icon table; &icon[6..20]
\* panics for an icon of less than 20 bytes.
RECURSIVE add_icons(_, _, _, _, _)
add_icons(icon_table, icons_, i, first_free_icon_id, icon_directory_entries) ==
    LET id == first_free_icon_id + (i - 1)
        entry == Slice(icons_[i], 6, 18) \o LE16(id % 65536)
        inner_table == insert(DefaultTable, ID(LANGUAGE_ID_EN_US),
                              DataEntry(icons_[i], CODE_PAGE_ID_EN_US, 0))
    IN IF i > Len(icons_)
       THEN [res |-> "Ok", icon_table |-> icon_table, entries |-> icon_directory_entries]
       ELSE IF Len(icons_[i]) < 20
       THEN [res |-> "Panic", icon_table |-> icon_table, entries |-> icon_directory_entries]
       ELSE add_icons(insert(icon_table, ID(id), TableEntry(inner_table)), icons_, i + 1,
                      first_free_icon_id, icon_directory_entries \o entry)

\* ResourceDirectory::set_main_icon
set_main_icon(self, icon) ==
    LET root == IF has(self.root, ID(RT_ICON)) THEN self.root
                ELSE insert(self.root, ID(RT_ICON), TableEntry(DefaultTable))
        with_table == [self EXCEPT !.root = root]
        icon_table == get(root, ID(RT_ICON)).table
        icons_ == icons(icon)
        added == add_icons(icon_table, icons_.icons, 1, max_id(icon_table) + 1, <<>>)
        with_icons == put(root, ID(RT_ICON), TableEntry(added.icon_table))
        grouped == IF has(with_icons, ID(RT_GROUP_ICON)) THEN with_icons
                   ELSE insert(with_icons, ID(RT_GROUP_ICON), TableEntry(DefaultTable))
        group_table == get(grouped, ID(RT_GROUP_ICON)).table
        inner_table ==
            insert(DefaultTable, ID(LANGUAGE_ID_EN_US),
                   DataEntry(IconDirectoryBytes(Len(added.entries) \div IconDirectoryEntrySize)
                                 \o added.entries,
                             CODE_PAGE_ID_EN_US, 0))
    IN IF get(root, ID(RT_ICON)).kind # "Table" THEN InvalidTable(self)
       ELSE IF icons_.res # "Ok" THEN InvalidBytes(with_table)
       ELSE IF added.res # "Ok" THEN Panicked([self EXCEPT !.root = with_icons])
       ELSE IF get(grouped, ID(RT_GROUP_ICON)).kind # "Table"
       THEN InvalidTable([self EXCEPT !.root = with_icons])
       ELSE Done([self EXCEPT !.root =
                    put(grouped, ID(RT_GROUP_ICON),
                        TableEntry(insert_at(group_table, from_string(MAINICON),
                                             TableEntry(inner_table), 0)))])

\* the ids of the icons i.. an icon directory of `count` entries names, in its order
\* and without repetitions (an IndexSet)
RECURSIVE icon_ids(_, _, _, _)
icon_ids(data, i, count, ids) ==
    LET offset == IconDirectorySize + i * IconDirectoryEntrySize
        id == Rd16(data, offset + 12)
    IN IF i >= count THEN [res |-> "Ok", ids |-> ids]
       ELSE IF read(data, offset, IconDirectoryEntrySize) # "Ok"
       THEN [res |-> read(data, offset, IconDirectoryEntrySize), ids |-> ids]
       ELSE icon_ids(data, i + 1, count,
                     IF \E k \in 1..Len(ids) : ids[k] = id THEN ids ELSE Append(ids, id))

\* IndexSet::swap_remove of every id of `others`, in their order
RECURSIVE without_ids(_, _)
\* an IndexSet from which the ids of `others` are not taken
without_ids_kept(ids, others) == ids

without_ids(ids, others) ==
    IF others = <<>> THEN ids
    ELSE without_ids(IF \E k \in 1..Len(ids) : ids[k] = others[1]
                     THEN swap_remove(ids, CHOOSE k \in 1..Len(ids) : ids[k] = others[1])
                     ELSE ids,
                     Tail(others))

\* The loop of remove_main_icon over the other icon directories i.. of the group
\* table: the icons they name are not removed.
RECURSIVE keep_other_icons(_, _, _, _)
keep_other_icons(group_table, i, icon_directory_name, icons_to_remove) ==
    LET other == group_table.entries[i]
        data == other.entry.table.entries[1].entry.data
        named == icon_ids(data, 0, Rd16(data, 4), <<>>)
        skip == \/ other.name = icon_directory_name
                \/ other.entry.kind # "Table"
                \/ other.entry.table.entries = <<>>
                \/ other.entry.table.entries[1].entry.kind = "Table"
    IN IF i > Len(group_table.entries) THEN [res |-> "Ok", ids |-> icons_to_remove]
       ELSE IF skip
       THEN keep_other_icons(group_table, i + 1, icon_directory_name, icons_to_remove)
       ELSE IF read(data, 0, IconDirectorySize) # "Ok"
       THEN [res |-> read(data, 0, IconDirectorySize), ids |-> icons_to_remove]
       ELSE IF named.res # "Ok" THEN [res |-> named.res, ids |-> icons_to_remove]
       ELSE keep_other_icons(group_table, i + 1, icon_directory_name,
                             without_ids(icons_to_remove, named.ids))

\* the loop of remove_main_icon that removes the icons from the icon table
RECURSIVE remove_icons(_, _)
remove_icons(icon_table, ids) ==
    IF ids = <<>> THEN icon_table
    ELSE remove_icons(remove(icon_table, ID(ids[1])), Tail(ids))

\* ResourceDirectory::remove_main_icon
remove_main_icon(self) ==
    IF self.root.entries = <<>> THEN Done(self)
    ELSE IF ~has(self.root, ID(RT_GROUP_ICON)) THEN Done(self)
    ELSE IF get(self.root, ID(RT_GROUP_ICON)).kind # "Table" THEN InvalidTable(self)
    ELSE
      LET group_table == get(self.root, ID(RT_GROUP_ICON)).table
          icon_directory_name == IF has(group_table, from_string(MAINICON))
                                 THEN from_string(MAINICON)
                                 ELSE group_table.entries[1].name
          icon_directory_table == get(group_table, icon_directory_name)
          icon_directory_entry == icon_directory_table.table.entries[1].entry
          listed == icon_ids(icon_directory_entry.data, 0, Rd16(icon_directory_entry.data, 4),
                             <<>>)
          icons_to_remove == keep_other_icons(group_table, 1, icon_directory_name, listed.ids)
          group_removed == remove(group_table, icon_directory_name)
          root == IF group_removed.entries = <<>> THEN remove(self.root, ID(RT_GROUP_ICON))
                  ELSE put(self.root, ID(RT_GROUP_ICON), TableEntry(group_removed))
      IN IF group_table.entries = <<>> THEN Done(self)
         ELSE IF icon_directory_table.kind # "Table" THEN InvalidTable(self)
         ELSE IF icon_directory_table.table.entries = <<>> THEN Done(self)
         ELSE IF icon_directory_entry.kind = "Table" THEN InvalidTable(self)
         ELSE IF read(icon_directory_entry.data, 0, IconDirectorySize) # "Ok"
         THEN InvalidBytes(self)
         ELSE IF listed.res = "Err" THEN InvalidBytes(self)
         ELSE IF listed.res = "Panic" THEN Panicked(self)
         ELSE IF icons_to_remove.res = "Err" THEN InvalidBytes(self)
         ELSE IF icons_to_remove.res = "Panic" THEN Panicked(self)
         ELSE IF ~has(root, ID(RT_ICON)) \/ get(root, ID(RT_ICON)).kind # "Table"
         THEN Done([self EXCEPT !.root = root])
         ELSE Done([self EXCEPT !.root =
                      put(root, ID(RT_ICON),
                          TableEntry(remove_icons(get(root, ID(RT_ICON)).table,
                                                  icons_to_remove.ids)))])

\* --------------------------------------------- removing a manifest or version info

\* ResourceDirectory::get_version_info
get_version_info(self) ==
    IF self.root.entries = <<>> THEN Got(self, None)
    ELSE IF ~has(self.root, ID(RT_VERSION)) THEN Got(self, None)
    ELSE IF get(self.root, ID(RT_VERSION)).kind # "Table" THEN InvalidTable(self)
    ELSE LET version_table == get(self.root, ID(RT_VERSION)).table
         IN IF version_table.entries = <<>> THEN Got(self, None)
            ELSE IF version_table.entries[1].entry.kind # "Table" THEN InvalidTable(self)
            ELSE LET inner_table == version_table.entries[1].entry.table
                     version_directory_entry == manifest_directory_entry(inner_table)
                 IN IF inner_table.entries = <<>> THEN Got(self, None)
                    ELSE IF version_directory_entry.kind = "Table" THEN InvalidTable(self)
                    ELSE With(VersionInfo_parse(version_directory_entry.data),
                              LAMBDA r : IF r.res = "Ok" THEN Got(self, Some(r.version_info))
                                         ELSE IF r.res = "Err" THEN InvalidBytes(self)
                                         ELSE Panicked(self))

\* The body that remove_manifest and remove_version_info share, for the root entry
\* `type_`: the first entry of the first inner table is removed, then the inner
\* table and the type table when they are left empty.
remove_first_entry(self, type_) ==
    IF self.root.entries = <<>> THEN Done(self)
    ELSE IF ~has(self.root, ID(type_)) THEN Done(self)
    ELSE IF get(self.root, ID(type_)).kind # "Table" THEN InvalidTable(self)
    ELSE LET type_table == get(self.root, ID(type_)).table
             inner_table == type_table.entries[1].entry.table
             inner_removed == remove(inner_table, inner_table.entries[1].name)
             type_removed ==
                 IF inner_removed.entries = <<>>
                 THEN remove(type_table, type_table.entries[1].name)
                 ELSE put(type_table, type_table.entries[1].name, TableEntry(inner_removed))
         IN IF type_table.entries = <<>> THEN Done(self)
            ELSE IF type_table.entries[1].entry.kind # "Table" THEN InvalidTable(self)
            ELSE IF inner_table.entries = <<>> THEN Done(self)
            ELSE Done([self EXCEPT !.root =
                         IF type_removed.entries = <<>> THEN remove(self.root, ID(type_))
                         ELSE put(self.root, ID(type_), TableEntry(type_removed))])

\* ResourceDirectory::remove_version_info
remove_version_info(self) == remove_first_entry(self, RT_VERSION)

\* ResourceDirectory::remove_manifest
remove_manifest(self) == remove_first_entry(self, RT_MANIFEST)

\* ------------------------------------------------------------ PE headers

\* types::CoffHeader, 20 bytes
CoffHeaderBytes(h) ==
    LE16(h.machine) \o LE16(h.number_of_sections) \o LE32(h.time_date_stamp)
    \o LE32(h.pointer_to_symbol_table) \o LE32(h.number_of_symbols)
    \o LE16(h.size_of_optional_header) \o LE16(h.characteristics)

RdCoffHeader(b, off) ==
    [machine |-> Rd16(b, off), number_of_sections |-> Rd16(b, off + 2),
     time_date_stamp |-> Rd32(b, off + 4), pointer_to_symbol_table |-> Rd32(b, off + 8),
     number_of_symbols |-> Rd32(b, off + 12), size_of_optional_header |-> Rd16(b, off + 16),
     characteristics |-> Rd16(b, off + 18)]

\* types::StandardHeader, 24 bytes (the record has no base_of_data field)
StandardHeaderBytes(h) ==
    LE16(h.magic) \o h.linker_version \o LE32(h.size_of_code)
    \o LE32(h.size_of_initialized_data) \o LE32(h.size_of_uninitialized_data)
    \o LE32(h.address_of_entry_point) \o LE32(h.base_of_code)

RdStandardHeader(b, off) ==
    [magic |-> Rd16(b, off), linker_version |-> Slice(b, off + 2, off + 4),
     size_of_code |-> Rd32(b, off + 4), size_of_initialized_data |-> Rd32(b, off + 8),
     size_of_uninitialized_data |-> Rd32(b, off + 12),
     address_of_entry_point |-> Rd32(b, off + 16), base_of_code |-> Rd32(b, off + 20)]

\* types::WindowsHeader<UXX>: uxx is the width of UXX in bytes (4 for WindowsHeader32,
\* 8 for WindowsHeader64); the UXX fields are kept as their bytes.  68 or 88 bytes.
WindowsHeaderSize(uxx) == 48 + 5 * uxx

WindowsHeaderBytes(h) ==
    h.image_base \o LE32(h.section_alignment) \o LE32(h.file_alignment)
    \o h.operating_system_version \o h.image_version \o h.subsystem_version
    \o LE32(h.win32_version_value) \o LE32(h.size_of_image) \o LE32(h.size_of_headers)
    \o LE32(h.check_sum) \o LE16(h.subsystem) \o LE16(h.dll_characteristics)
    \o h.size_of_stack_reserve \o h.size_of_stack_commit
    \o h.size_of_heap_reserve \o h.size_of_heap_commit
    \o LE32(h.loader_flags) \o LE32(h.number_of_rva_and_sizes)

RdWindowsHeader(b, off, uxx) ==
    [uxx |-> uxx,
     image_base |-> Slice(b, off, off + uxx),
     section_alignment |-> Rd32(b, off + uxx),
     file_alignment |-> Rd32(b, off + uxx + 4),
     operating_system_version |-> Slice(b, off + uxx + 8, off + uxx + 12),
     image_version |-> Slice(b, off + uxx + 12, off + uxx + 16),
     subsystem_version |-> Slice(b, off + uxx + 16, off + uxx + 20),
     win32_version_value |-> Rd32(b, off + uxx + 20),
     size_of_image |-> Rd32(b, off + uxx + 24),
     size_of_headers |-> Rd32(b, off + uxx + 28),
     check_sum |-> Rd32(b, off + uxx + 32),
     subsystem |-> Rd16(b, off + uxx + 36),
     dll_characteristics |-> Rd16(b, off + uxx + 38),
     size_of_stack_reserve |-> Slice(b, off + uxx + 40, off + 2 * uxx + 40),
     size_of_stack_commit |-> Slice(b, off + 2 * uxx + 40, off + 3 * uxx + 40),
     size_of_heap_reserve |-> Slice(b, off + 3 * uxx + 40, off + 4 * uxx + 40),
     size_of_heap_commit |-> Slice(b, off + 4 * uxx + 40, off + 5 * uxx + 40),
     loader_flags |-> Rd32(b, off + 5 * uxx + 40),
     number_of_rva_and_sizes |-> Rd32(b, off + 5 * uxx + 44)]

\* types::ImageDataDirectory, 8 bytes
ImageDataDirectory(virtual_address, sz) == [virtual_address |-> virtual_address, size |-> sz]

ImageDataDirectoryBytes(d) == LE32(d.virtual_address) \o LE32(d.size)

RdImageDataDirectory(b, off) == ImageDataDirectory(Rd32(b, off), Rd32(b, off + 4))

\* image::DataDirectoryType in declaration order: the map header_data_directory is the
\* sequence of its values, the key of the i-th value being the i-th type.
ExportTable == 1
ImportTable == 2
ResourceTable_ == 3

\* types::SectionHeader, 40 bytes
SectionHeaderBytes(h) ==
    h.name \o LE32(h.virtual_size) \o LE32(h.virtual_address) \o LE32(h.size_of_raw_data)
    \o LE32(h.pointer_to_raw_data) \o LE32(h.pointer_to_relocations)
    \o LE32(h.pointer_to_linenumbers) \o LE16(h.number_of_relocations)
    \o LE16(h.number_of_linenumbers) \o LE32(h.characteristics)

RdSectionHeader(b, off) ==
    [name |-> Slice(b, off, off + 8), virtual_size |-> Rd32(b, off + 8),
     virtual_address |-> Rd32(b, off + 12), size_of_raw_data |-> Rd32(b, off + 16),
     pointer_to_raw_data |-> Rd32(b, off + 20), pointer_to_relocations |-> Rd32(b, off + 24),
     pointer_to_linenumbers |-> Rd32(b, off + 28), number_of_relocations |-> Rd16(b, off + 32),
     number_of_linenumbers |-> Rd16(b, off + 34), characteristics |-> Rd32(b, off + 36)]

\* data_directory.virtual_address lies in the section's virtual extent
Covers(section, virtual_address) ==
    /\ virtual_address >= section.virtual_address
    /\ virtual_address < section.virtual_address + section.virtual_size

\* ------------------------------------------------------------ Image::parse

NoImage ==
    [image |-> <<>>, pe_dos_magic |-> 0, pe_signature |-> 0, coff_header |-> <<>>,
     standard_header |-> <<>>, windows_header |-> <<>>, header_data_directory |-> <<>>,
     section_table |-> <<>>, resource_directory |-> None, coff_header_offset |-> 0,
     optional_header_dd_offset |-> 0, directories_offset |-> 0]

ReadFailed(st) ==
    [res |-> st, err |-> IF st = "Err" THEN "InvalidBytes" ELSE "", img |-> NoImage]

InvalidHeader == [res |-> "Err", err |-> "InvalidHeader", img |-> NoImage]

\* The loop of lines 199-215: every section covering the resource data directory is
\* parsed (there is no break), an error of any of them is returned, the last one stays.
RECURSIVE parse_resource_sections(_, _, _, _, _)
parse_resource_sections(image, section_table, i, resource_data, found) ==
    IF i > Len(section_table) THEN [res |-> "Ok", dir |-> found]
    ELSE IF ~Covers(section_table[i], resource_data.virtual_address)
    THEN parse_resource_sections(image, section_table, i + 1, resource_data, found)
    ELSE
      LET r == ResourceDirectory_parse(image, section_table[i].pointer_to_raw_data,
                                       section_table[i].virtual_address)
      IN IF r.res # "Ok" THEN [res |-> r.res, dir |-> None]
         ELSE parse_resource_sections(image, section_table, i + 1, resource_data, Some(r.dir))

Image_parse(image) ==
    LET st_magic == read(image, 0, 2)
        pe_dos_magic == Rd16(image, 0)
        st_ptr == read(image, PE_PTR_OFFSET, 4)
        pe_signature_offset == Rd32(image, PE_PTR_OFFSET)
        st_sig == read(image, pe_signature_offset, 4)
        pe_signature == Rd32(image, pe_signature_offset)
        coff_header_offset == pe_signature_offset + 4
        st_coff == read(image, coff_header_offset, 20)
        coff_header == RdCoffHeader(image, coff_header_offset)
        standard_header_offset == coff_header_offset + 20
        st_std == read(image, standard_header_offset, 24)
        standard_header == RdStandardHeader(image, standard_header_offset)
        pe32 == standard_header.magic = PE_32_MAGIC /\ coff_header.size_of_optional_header >= 96
        pe64 == standard_header.magic = PE_64_MAGIC /\ coff_header.size_of_optional_header >= 112
        uxx == IF pe32 THEN 4 ELSE 8
        windows_header_offset == standard_header_offset + (IF pe32 THEN 28 ELSE 24)
        st_win == read(image, windows_header_offset, WindowsHeaderSize(uxx))
        windows_header == RdWindowsHeader(image, windows_header_offset, uxx)
        optional_header_dd_offset == standard_header_offset + (IF pe32 THEN 96 ELSE 112)
        n_dd == Min(windows_header.number_of_rva_and_sizes, 16)
        st_dd == read_each(image, optional_header_dd_offset, n_dd, 8)
        header_data_directory ==
            [i \in 1..n_dd |-> RdImageDataDirectory(image, optional_header_dd_offset + (i - 1) * 8)]
        section_table_offset == standard_header_offset + coff_header.size_of_optional_header
        st_sections == read_each(image, section_table_offset, coff_header.number_of_sections, 40)
        section_table ==
            [i \in 1..coff_header.number_of_sections |->
                RdSectionHeader(image, section_table_offset + (i - 1) * 40)]
        directories_offset == section_table_offset + coff_header.number_of_sections * 40
        has_resources ==
            /\ n_dd >= ResourceTable_
            /\ header_data_directory[ResourceTable_].virtual_address > 0
            /\ header_data_directory[ResourceTable_].size > 0
        resources ==
            IF has_resources
            THEN parse_resource_sections(image, section_table, 1,
                                         header_data_directory[ResourceTable_], None)
            ELSE [res |-> "Ok", dir |-> None]
    IN IF st_magic # "Ok" THEN ReadFailed(st_magic)
       ELSE IF pe_dos_magic # PE_DOS_MAGIC THEN InvalidHeader
       ELSE IF st_ptr # "Ok" THEN ReadFailed(st_ptr)
       ELSE IF st_sig # "Ok" THEN ReadFailed(st_sig)
       ELSE IF pe_signature # PE_NT_SIGNATURE THEN InvalidHeader
       ELSE IF st_coff # "Ok" THEN ReadFailed(st_coff)
       ELSE IF coff_header.size_of_optional_header < 24 THEN InvalidHeader
       ELSE IF st_std # "Ok" THEN ReadFailed(st_std)
       ELSE IF ~pe32 /\ ~pe64 THEN InvalidHeader
       ELSE IF st_win # "Ok" THEN ReadFailed(st_win)
       ELSE IF Len(image) <= optional_header_dd_offset THEN InvalidHeader
       ELSE IF st_dd # "Ok" THEN ReadFailed(st_dd)
       ELSE IF st_sections # "Ok" THEN ReadFailed(st_sections)
       ELSE IF resources.res # "Ok" THEN ReadFailed(resources.res)
       ELSE [res |-> "Ok", err |-> "",
             img |-> [image |-> image, pe_dos_magic |-> pe_dos_magic,
                      pe_signature |-> pe_signature, coff_header |-> coff_header,
                      standard_header |-> standard_header, windows_header |-> windows_header,
                      header_data_directory |-> header_data_directory,
                      section_table |-> section_table,
                      resource_directory |-> resources.dir,
                      coff_header_offset |-> coff_header_offset,
                      optional_header_dd_offset |-> optional_header_dd_offset,
                      directories_offset |-> directories_offset]]

\* impl PartialEq for Image: the byte buffer and the three offsets are not compared
OptionDirEq(a, b) == a.some = b.some /\ (a.some => DirEq(a.value, b.value))

ImageEq(a, b) ==
    /\ a.pe_dos_magic = b.pe_dos_magic
    /\ a.pe_signature = b.pe_signature
    /\ a.coff_header = b.coff_header
    /\ a.standard_header = b.standard_header
    /\ a.windows_header = b.windows_header
    /\ a.header_data_directory = b.header_data_directory
    /\ a.section_table = b.section_table
    /\ OptionDirEq(a.resource_directory, b.resource_directory)

\* ------------------------------------------- Image::set_resource_directory

\* Iterator::min_by_key keeps the first of several minima, max_by_key the last of
\* several maxima.  Both are taken over the indices in `among`; 0 stands for None.
RawEnd(section) == section.pointer_to_raw_data + section.size_of_raw_data

VirtualEnd(section) == section.virtual_address + section.virtual_size

WithRawData(section_table) ==
    {i \in 1..Len(section_table) : section_table[i].size_of_raw_data > 0}

first_section(section_table) ==
    LET among == WithRawData(section_table)
    IN IF among = {} THEN 0
       ELSE CHOOSE i \in among :
              \A j \in among :
                 \/ section_table[i].pointer_to_raw_data < section_table[j].pointer_to_raw_data
                 \/ (section_table[i].pointer_to_raw_data = section_table[j].pointer_to_raw_data
                     /\ i <= j)

last_section(section_table) ==
    LET among == WithRawData(section_table)
    IN IF among = {} THEN 0
       ELSE CHOOSE i \in among :
              \A j \in among :
                 \/ RawEnd(section_table[i]) > RawEnd(section_table[j])
                 \/ (RawEnd(section_table[i]) = RawEnd(section_table[j]) /\ i >= j)

last_virtual_section(section_table) ==
    LET among == 1..Len(section_table)
    IN IF among = {} THEN 0
       ELSE CHOOSE i \in among :
              \A j \in among :
                 \/ VirtualEnd(section_table[i]) > VirtualEnd(section_table[j])
                 \/ (VirtualEnd(section_table[i]) = VirtualEnd(section_table[j]) /\ i >= j)

\* The search of lines 366-382: the first section covering the old resource directory
old_resource_section(section_table, old_resource_data_directory) ==
    LET hits == {i \in 1..Len(section_table) :
                    Covers(section_table[i], old_resource_data_directory.virtual_address)}
    IN IF old_resource_data_directory.size > 0 /\ hits # {}
       THEN CHOOSE i \in hits : \A j \in hits : i <= j
       ELSE 0

\* Lines 416-426: a data directory other than ResourceTable lies in the section
multiple_data_directories(header_data_directory, section) ==
    \E i \in 1..Len(header_data_directory) :
        i # ResourceTable_ /\ Covers(section, header_data_directory[i].virtual_address)

new_section_header_aligned(virtual_size, virtual_address, size_of_raw_data, pointer_to_raw_data) ==
    [name |-> PEDATA_NAME, virtual_size |-> virtual_size, virtual_address |-> virtual_address,
     size_of_raw_data |-> virtual_size, pointer_to_raw_data |-> pointer_to_raw_data,
     pointer_to_relocations |-> 0, pointer_to_linenumbers |-> 0, number_of_relocations |-> 0,
     number_of_linenumbers |-> 0,
     characteristics |-> IMAGE_SCN_CNT_INITIALIZED_DATA + IMAGE_SCN_MEM_READ]

\* The section header written for a new section (lines 525-533)
new_section_header(virtual_size, virtual_address, size_of_raw_data, pointer_to_raw_data) ==
    [name |-> PEDATA_NAME, virtual_size |-> virtual_size, virtual_address |-> virtual_address,
     size_of_raw_data |-> size_of_raw_data, pointer_to_raw_data |-> pointer_to_raw_data,
     pointer_to_relocations |-> 0, pointer_to_linenumbers |-> 0, number_of_relocations |-> 0,
     number_of_linenumbers |-> 0,
     characteristics |-> IMAGE_SCN_CNT_INITIALIZED_DATA + IMAGE_SCN_MEM_READ]

\* The placement decision of lines 385-487 for an existing resource section `old`:
\* which of the branches is taken.  is_last is is_last_section of line 390.
placement(old, is_last, shared, old_dd_size, new_size) ==
    IF ~(old.size_of_raw_data >= new_size \/ is_last) THEN "append"
    ELSE IF shared THEN "append"
    ELSE IF old_dd_size >= new_size
         THEN IF ~is_last /\ old.size_of_raw_data > new_size THEN "pad"
              ELSE IF old.size_of_raw_data > new_size THEN "truncate"
              ELSE "keep"
    ELSE "expand"

\* The header-space check of lines 547-556
not_enough_space(required_header_space, available_space) ==
    required_header_space > available_space

invalid_section_range_inclusive(last_section_end, len) == last_section_end >= len

\* The section-range check of lines 350-355
invalid_section_range(last_section_end, len) == last_section_end > len

on_error_commits(self, coff_header, section_table) ==
    [self EXCEPT !.coff_header = coff_header, !.section_table = section_table]

\* What the call leaves in self when it returns an error: nothing is assigned before
\* the last `return Err`.
on_error(self, coff_header, section_table) == self

SetFailed(self, res, err, path, required_header_space) ==
    [res |-> res, err |-> err, self |-> self, previous |-> None, path |-> path,
     required_header_space |-> required_header_space]

\* Image::set_resource_directory.  overflow_checks is the build's setting of integer
\* overflow checks (on in debug builds, off in release builds): u32 and usize
\* subtraction panics with them and wraps without them.
set_resource_directory(self, resource_directory, overflow_checks) ==
    LET image == self.image
        len == Len(image)
        missing == IF Len(self.header_data_directory) < 3
                   THEN 3 - Len(self.header_data_directory) ELSE 0
        header_data_directory == self.header_data_directory
                                 \o [i \in 1..missing |-> ImageDataDirectory(0, 0)]
        old_resource_data_directory == header_data_directory[ResourceTable_]
        section_alignment == self.windows_header.section_alignment
        new_size == ResourceDirectory_size(resource_directory)
        new_size_aligned == aligned_to(new_size, section_alignment)
        first == first_section(self.section_table)
        first_section_start ==
            IF first = 0 THEN len ELSE self.section_table[first].pointer_to_raw_data
        last == last_section(self.section_table)
        last_section_end == IF last = 0 THEN len ELSE RawEnd(self.section_table[last])
        old_i == old_resource_section(self.section_table, old_resource_data_directory)
        old == self.section_table[old_i]
        old_resource_section_start == IF old_i = 0 THEN 0 ELSE old.pointer_to_raw_data
        old_resource_section_end == IF old_i = 0 THEN 0 ELSE RawEnd(old)
        is_last_section == RawEnd(self.section_table[last]) = RawEnd(old)
        path == IF old_i = 0 THEN "append"
                ELSE placement(old, is_last_section,
                               multiple_data_directories(header_data_directory, old),
                               old_resource_data_directory.size, new_size)
        add_new_section == path = "append"
        \* the existing section and its data directory after lines 428-476
        in_place == ResourceDirectory_build(resource_directory,
                                            old_resource_data_directory.virtual_address)
        resource_section_data ==
            IF path = "append"
            THEN IF old_i = 0 THEN <<>>
                 ELSE Slice(image, old.pointer_to_raw_data, RawEnd(old))
            ELSE IF path = "pad"
            THEN in_place \o Slice(image, old.pointer_to_raw_data + new_size, RawEnd(old))
            ELSE in_place
        \* line 470: size_of_raw_data += new_size - size_of_raw_data in u32; the
        \* difference wraps when it is negative and the sum wraps back
        expanded_raw == old.size_of_raw_data + (new_size - old.size_of_raw_data)
        patched_section ==
            IF path = "truncate"
            THEN [old EXCEPT !.size_of_raw_data = new_size, !.virtual_size = new_size_aligned]
            ELSE IF path = "expand"
            THEN [old EXCEPT !.size_of_raw_data = expanded_raw,
                             !.virtual_size = @ + aligned_to(new_size - expanded_raw,
                                                             section_alignment)]
            ELSE old
        patched_size == IF path \in {"truncate", "expand"}
                        THEN new_size ELSE old_resource_data_directory.size
        \* the new section of lines 489-539
        lvs == last_virtual_section(self.section_table)
        virtual_address ==
            aligned_to(IF lvs = 0 THEN section_alignment
                       ELSE VirtualEnd(self.section_table[lvs]),
                       section_alignment)
        pointer_to_raw_data ==
            IF last = 0 THEN self.directories_offset ELSE RawEnd(self.section_table[last])
        new_section_data ==
            IF add_new_section THEN ResourceDirectory_build(resource_directory, virtual_address)
            ELSE <<>>
        section_table ==
            IF add_new_section
            THEN Append(self.section_table,
                        new_section_header(new_size_aligned, virtual_address, new_size,
                                           pointer_to_raw_data))
            ELSE [self.section_table EXCEPT ![old_i] = patched_section]
        data_directory ==
            [header_data_directory EXCEPT ![ResourceTable_] =
                IF add_new_section THEN ImageDataDirectory(virtual_address, new_size)
                ELSE ImageDataDirectory(old_resource_data_directory.virtual_address,
                                        patched_size)]
        coff_header ==
            IF add_new_section
            THEN [self.coff_header EXCEPT !.number_of_sections = @ + 1]
            ELSE self.coff_header
        required_header_space == 8 * missing + (IF add_new_section THEN 40 ELSE 0)
        available_space == first_section_start - self.directories_offset
        windows_header ==
            [self.windows_header EXCEPT
                !.number_of_rva_and_sizes = Len(data_directory),
                !.size_of_image = @ + Len(new_section_data),
                !.check_sum = 0]
        header ==
            Slice(image, 0, self.coff_header_offset)
            \o CoffHeaderBytes(coff_header)
            \o StandardHeaderBytes(self.standard_header)
            \o WindowsHeaderBytes(windows_header)
            \o Flatten([i \in 1..Len(data_directory) |->
                          ImageDataDirectoryBytes(data_directory[i])])
            \o Flatten([i \in 1..Len(section_table) |-> SectionHeaderBytes(section_table[i])])
            \o Slice(image, self.directories_offset + required_header_space, first_section_start)
        sections ==
            IF old_resource_section_start > 0
            THEN Slice(image, first_section_start, old_resource_section_start)
                 \o resource_section_data
                 \o Slice(image, old_resource_section_end, last_section_end)
            ELSE Slice(image, first_section_start, last_section_end)
        new_image == header \o sections \o new_section_data \o Slice(image, last_section_end, len)
    IN IF invalid_section_range(last_section_end, len)
       THEN SetFailed(on_error(self, coff_header, section_table), "Err",
                      <<"InvalidSectionRange", last_section_end, len>>, "none", 0)
       \* last_section.unwrap() of line 389
       ELSE IF old_i # 0 /\ last = 0 THEN SetFailed(self, "Panic", <<"unwrap">>, "none", 0)
       \* new_resource_directory_size - old_resource_section.size_of_raw_data, line 471
       ELSE IF path = "expand" /\ new_size < old.size_of_raw_data /\ overflow_checks
       THEN SetFailed(self, "Panic", <<"overflow">>, path, required_header_space)
       \* the slice of line 494
       ELSE IF path = "append" /\ old_i # 0 /\ RawEnd(old) > len
       THEN SetFailed(self, "Panic", <<"slice">>, path, required_header_space)
       \* first_section_start - self.directories_offset, line 547
       ELSE IF available_space < 0 /\ overflow_checks
       THEN SetFailed(self, "Panic", <<"overflow">>, path, required_header_space)
       ELSE IF available_space >= 0 /\ not_enough_space(required_header_space, available_space)
       THEN SetFailed(on_error(self, coff_header, section_table), "Err",
                      <<"NotEnoughSpaceInHeader">>, path, required_header_space)
       \* the slice of lines 582-585: its start is past its end
       ELSE IF available_space < 0
       THEN SetFailed(self, "Panic", <<"slice">>, path, required_header_space)
       \* the slices of lines 590-592
       ELSE IF old_resource_section_start > 0
               /\ (first_section_start > old_resource_section_start
                   \/ old_resource_section_start > len
                   \/ old_resource_section_end > last_section_end)
       THEN SetFailed(self, "Panic", <<"slice">>, path, required_header_space)
       ELSE [res |-> "Ok", err |-> <<>>,
             self |-> [self EXCEPT !.coff_header = coff_header,
                                   !.windows_header = windows_header,
                                   !.header_data_directory = data_directory,
                                   !.section_table = section_table,
                                   !.resource_directory = Some(resource_directory),
                                   !.image = new_image],
             previous |-> self.resource_directory,
             path |-> path,
             required_header_space |-> required_header_space]

\* ------------------------------------------------------- Image::set_subsystem

\* Image::set_subsystem: the Windows header gets the subsystem and check_sum 0, and
\* the image is written again as the bytes before the COFF header, the COFF header,
\* the standard header, the Windows header and the bytes from the data directories on.
set_subsystem(self, subsystem) ==
    LET windows_header ==
            [self.windows_header EXCEPT !.subsystem = subsystem, !.check_sum = 0]
        new_image ==
            Slice(self.image, 0, self.coff_header_offset)
            \o CoffHeaderBytes(self.coff_header)
            \o StandardHeaderBytes(self.standard_header)
            \o WindowsHeaderBytes(windows_header)
            \o Slice(self.image, self.optional_header_dd_offset, Len(self.image))
    IN [self |-> [self EXCEPT !.windows_header = windows_header, !.image = new_image],
        previous_subsystem |-> self.windows_header.subsystem]

\* ------------------------------------------------------------ input files

\* The bytes of a PE file as a linker lays it out: DOS header with the PE pointer at
\* 0x3c, "PE\0\0", COFF header, optional header (standard header, base_of_data in a
\* PE32 file, Windows header, data directories), section table, `room` bytes of
\* padding, the raw data of the sections and an overlay.
SectionAlignment == 4 * 1024

DosHeader == <<77, 90>> \o Zeros(58) \o LE32(64)

PeSignature == <<80, 69, 0, 0>>

Fill(n, seed) == [i \in 1..n |-> ((seed + i) % 100) + 1]

\* file offset of the end of the section table
HeaderEnd(f) ==
    64 + 4 + 20 + (IF f.uxx = 4 THEN 96 ELSE 112) + 8 * f.n_dd + 40 * Len(f.sections)

RECURSIVE RawStart(_, _)
RawStart(f, i) ==
    IF f.sections[i].pointer >= 0 THEN f.sections[i].pointer
    ELSE IF i = 1 THEN HeaderEnd(f) + f.room
    ELSE RawStart(f, i - 1) + f.sections[i - 1].raw

FileSection(f, i) ==
    [name |-> f.sections[i].name,
     virtual_size |-> IF "virtual_size" \in DOMAIN f.sections[i]
                      THEN f.sections[i].virtual_size ELSE SectionAlignment,
     virtual_address |-> i * SectionAlignment, size_of_raw_data |-> f.sections[i].raw,
     pointer_to_raw_data |-> IF f.sections[i].raw = 0 /\ f.sections[i].pointer < 0
                             THEN 0 ELSE RawStart(f, i),
     pointer_to_relocations |-> 0, pointer_to_linenumbers |-> 0, number_of_relocations |-> 0,
     number_of_linenumbers |-> 0, characteristics |-> f.sections[i].characteristics]

FileSectionData(f, i) ==
    IF f.sections[i].resources.some
    THEN LET built == ResourceDirectory_build(f.sections[i].resources.value,
                                              i * SectionAlignment)
         IN built \o Fill(f.sections[i].raw - Len(built), 40)
    ELSE Fill(f.sections[i].raw, 10 * i)

FileBytes(f) ==
    LET n == Len(f.sections)
        coff == [machine |-> 100, number_of_sections |-> n, time_date_stamp |-> 7,
                 pointer_to_symbol_table |-> 0, number_of_symbols |-> 0,
                 size_of_optional_header |-> (IF f.uxx = 4 THEN 96 ELSE 112) + 8 * f.n_dd,
                 characteristics |-> 34]
        std == [magic |-> IF f.uxx = 4 THEN PE_32_MAGIC ELSE PE_64_MAGIC,
                linker_version |-> <<14, 1>>, size_of_code |-> 16,
                size_of_initialized_data |-> 32, size_of_uninitialized_data |-> 0,
                address_of_entry_point |-> SectionAlignment, base_of_code |-> SectionAlignment]
        base_of_data == IF f.uxx = 4 THEN LE32(2 * SectionAlignment) ELSE <<>>
        win == [uxx |-> f.uxx, image_base |-> Fill(f.uxx, 1),
                section_alignment |-> SectionAlignment, file_alignment |-> 8,
                operating_system_version |-> <<6, 0, 0, 0>>, image_version |-> <<0, 0, 0, 0>>,
                subsystem_version |-> <<6, 0, 0, 0>>, win32_version_value |-> 0,
                size_of_image |-> (n + 1) * SectionAlignment,
                size_of_headers |-> HeaderEnd(f) + f.room, check_sum |-> 4660,
                subsystem |-> 3, dll_characteristics |-> 0,
                size_of_stack_reserve |-> Fill(f.uxx, 2), size_of_stack_commit |-> Fill(f.uxx, 3),
                size_of_heap_reserve |-> Fill(f.uxx, 4), size_of_heap_commit |-> Fill(f.uxx, 5),
                loader_flags |-> 0, number_of_rva_and_sizes |-> f.n_dd]
    IN DosHeader \o PeSignature \o CoffHeaderBytes(coff) \o StandardHeaderBytes(std)
       \o base_of_data \o WindowsHeaderBytes(win)
       \o Flatten([i \in 1..f.n_dd |-> ImageDataDirectoryBytes(f.directories[i])])
       \o Flatten([i \in 1..n |-> SectionHeaderBytes(FileSection(f, i))])
       \o Fill(f.room, 60)
       \o Flatten([i \in 1..n |-> FileSectionData(f, i)])
       \o f.overlay

\* One data leaf of n bytes under the root: a directory of 40 + n bytes.
Leaf(n) == insert(DefaultTable, ID(24), DataEntry(Fill(n, 70), CODE_PAGE_ID_EN_US, 0))

TextSection ==
    [name |-> <<46, 116, 101, 120, 116, 0, 0, 0>>, raw |-> 16, pointer |-> -1,
     characteristics |-> 32, resources |-> None]

DataSection ==
    [name |-> <<46, 100, 97, 116, 97, 0, 0, 0>>, raw |-> 16, pointer |-> -1,
     characteristics |-> 64, resources |-> None]

BssSection ==
    [name |-> <<46, 98, 115, 115, 0, 0, 0, 0>>, raw |-> 0, pointer |-> -1,
     characteristics |-> 128, resources |-> None]

\* a resource section of 64 bytes holding a directory of 48 bytes
RsrcSection ==
    [name |-> <<46, 114, 115, 114, 99, 0, 0, 0>>, raw |-> 64, pointer |-> -1,
     characteristics |-> 64, resources |-> Some(ResourceDirectory(0, Leaf(8)))]

\* the same section with the virtual_size a linker writes: the size of its data
RsrcSectionUnaligned ==
    [name |-> <<46, 114, 115, 114, 99, 0, 0, 0>>, raw |-> 64, pointer |-> -1,
     characteristics |-> 64, resources |-> Some(ResourceDirectory(0, Leaf(8))),
     virtual_size |-> 48]

NoDirectory == ImageDataDirectory(0, 0)

File(uxx, directories, room, sections, overlay) ==
    [uxx |-> uxx, n_dd |-> Len(directories), directories |-> directories, room |-> room,
     sections |-> sections, overlay |-> overlay]

\* the resource section is the last section of the file
FileRsrcLast(uxx) ==
    File(uxx, <<NoDirectory, NoDirectory, ImageDataDirectory(2 * SectionAlignment, 48)>>, 40,
         <<TextSection, RsrcSection>>, <<9, 8, 7, 6>>)

\* the resource section is the last section and its virtual_size is not aligned
FileRsrcUnaligned ==
    File(8, <<NoDirectory, NoDirectory, ImageDataDirectory(2 * SectionAlignment, 48)>>, 40,
         <<TextSection, RsrcSectionUnaligned>>, <<9, 8, 7, 6>>)

\* the resource section lies between two sections; `import` is the ImportTable entry
FileRsrcMiddle(uxx, import) ==
    File(uxx, <<NoDirectory, import, ImageDataDirectory(2 * SectionAlignment, 48)>>, 40,
         <<TextSection, RsrcSection, DataSection>>, <<9, 8, 7, 6>>)

ImportInRsrc == ImageDataDirectory(2 * SectionAlignment + 56, 8)

\* no resources; the header has `room` spare bytes
FileNoRsrc(uxx, room) ==
    File(uxx, <<NoDirectory, NoDirectory, NoDirectory>>, room,
         <<TextSection, BssSection, DataSection>>, <<9, 8, 7, 6>>)

\* fewer than three data directories
FileFewDirectories(n_dd, room) ==
    File(8, [i \in 1..n_dd |-> NoDirectory], room, <<TextSection>>, <<>>)

\* the last section ends 8 bytes past the end of the file
FileBadRange ==
    File(8, <<NoDirectory, NoDirectory, NoDirectory>>, 40,
         <<TextSection, [DataSection EXCEPT !.pointer = 412]>>, <<>>)

\* the first section's raw data starts inside the headers
FileLowFirst ==
    File(8, <<NoDirectory, NoDirectory, NoDirectory>>, 40,
         <<[TextSection EXCEPT !.pointer = 128], [DataSection EXCEPT !.pointer = 364]>>,
         <<9, 8, 7, 6>>)

\* a section without raw data whose pointer_to_raw_data lies past the end of the file
FileStrayPointer ==
    File(8, <<NoDirectory, NoDirectory, NoDirectory>>, 40,
         <<TextSection, [BssSection EXCEPT !.pointer = 1024],
           [DataSection EXCEPT !.pointer = 400]>>, <<9, 8, 7, 6>>)

InputFiles ==
    {FileRsrcLast(8), FileRsrcLast(4), FileRsrcUnaligned,
     FileRsrcMiddle(8, NoDirectory), FileRsrcMiddle(8, ImportInRsrc),
     FileRsrcMiddle(4, ImportInRsrc),
     FileNoRsrc(8, 40), FileNoRsrc(4, 40), FileNoRsrc(8, 16),
     FileFewDirectories(1, 56), FileFewDirectories(2, 40),
     FileBadRange, FileLowFirst, FileStrayPointer}

\* ---------------------------------------------------------- state machine

VARIABLES
    image,            \* the Image value
    overflow_checks,  \* the build: integer overflow checks on (debug) or off (release)
    before,           \* the Image value before the last call
    calls,            \* the calls made on the Image, the last one last
    directory,        \* a ResourceDirectory value a program builds and edits
    input,            \* the bytes a program hands to Image::parse
    parsed            \* what Image::parse returned for them, None before the call

vars == <<image, overflow_checks, before, calls, directory, input, parsed>>

\* the number of calls made on one Image
MaxCalls == 2

\* The directories a caller passes: a fresh one, the image's own, or one with a leaf
\* of another size.
Directories(img) ==
    {DefaultDirectory, ResourceDirectory(0, Leaf(16)), ResourceDirectory(0, Leaf(32))}
    \cup (IF img.resource_directory.some THEN {img.resource_directory.value}
          ELSE {ResourceDirectory(0, Leaf(8))})

Init ==
    /\ image \in {Image_parse(bytes).img : bytes \in {FileBytes(f) : f \in InputFiles}}
    /\ overflow_checks \in BOOLEAN
    /\ before = image
    /\ calls = <<>>
    /\ directory = DefaultDirectory
    /\ input = <<>>
    /\ parsed = None

SetResourceDirectory(d) ==
    /\ Len(calls) < MaxCalls
    /\ IF calls = <<>> THEN TRUE ELSE calls[Len(calls)].res # "Panic"
    /\ \E r \in {set_resource_directory(image, d, overflow_checks)} :
          /\ image' = r.self
          /\ before' = image
          /\ calls' = Append(calls, [d |-> d, res |-> r.res, err |-> r.err, path |-> r.path,
                                     required_header_space |-> r.required_header_space])
    /\ UNCHANGED <<overflow_checks, directory, input, parsed>>

Next == \E d \in Directories(image) : SetResourceDirectory(d)

Spec == Init /\ [][Next]_vars

\* ------------------------------------------------ state machine of Image::parse

\* bytes with the bytes at offset `off` replaced
Patch(b, off, bytes) ==
    [i \in 1..Len(b) |-> IF i > off /\ i <= off + Len(bytes) THEN bytes[i - off] ELSE b[i]]

\* the offsets of the fields Image::parse checks, in the files of FileBytes
SizeOfOptionalHeaderOffset == Len(DosHeader) + Len(PeSignature) + 16

MagicOffset == Len(DosHeader) + Len(PeSignature) + 20

\* the sizes of optional header around the limits of the two formats
OptionalHeaderSizes == {0, 23, 24, 95, 96, 111, 112}

\* The byte slices a program parses: two well-formed files (PE32 and PE32+), each of
\* them cut short at every length up to its section table, and with one header
\* field replaced.
ParseInputs ==
    UNION {LET b == FileBytes(FileNoRsrc(uxx, 0))
           IN {Slice(b, 0, n) : n \in 0..(HeaderEnd(FileNoRsrc(uxx, 0)) + 1)}
              \cup {b, Patch(b, 0, <<77, 77>>), Patch(b, Len(DosHeader), <<80, 69, 0, 1>>),
                    Patch(b, PE_PTR_OFFSET, LE32(Len(b))),
                    Patch(b, MagicOffset, LE16(263))}
              \cup {Patch(b, SizeOfOptionalHeaderOffset, LE16(n)) : n \in OptionalHeaderSizes}
              \cup {Patch(Slice(b, 0, MagicOffset + 4), MagicOffset, LE16(263)),
                    Patch(Slice(b, 0, MagicOffset + 4), SizeOfOptionalHeaderOffset, LE16(23))} :
           uxx \in {4, 8}}

InitParse ==
    /\ image = NoImage
    /\ overflow_checks = FALSE
    /\ before = NoImage
    /\ calls = <<>>
    /\ directory = DefaultDirectory
    /\ input \in ParseInputs
    /\ parsed = None

Parse ==
    /\ ~parsed.some
    /\ \E r \in {Image_parse(input)} :
          /\ image' = r.img
          /\ parsed' = Some([res |-> r.res, err |-> r.err])
    /\ UNCHANGED <<overflow_checks, before, calls, directory, input>>

NextParse == Parse

SpecParse == InitParse /\ [][NextParse]_vars

\* ---------------------------------------- state machine of a ResourceDirectory

\* the number of entries a program puts in the root table
MaxEntries == 3

\* the virtual addresses a directory is parsed and built for
VirtualAddresses == {0, SectionAlignment}

\* "A" and "\u{e9}" as resource names, and two integer ids
Names == {ID(1), ID(2), from_string(<<65>>), from_string(<<233>>)}

Entries == {DataEntry(<<7, 7>>, CODE_PAGE_ID_EN_US, 0), TableEntry(Leaf(2))}

\* a root table whose two entries carry the same id
RepeatedKey ==
    ResourceDirectoryTableBytes(ResourceDirectoryTable(0, 2))
    \o LE32(1) \o LE32(32) \o LE32(1) \o LE32(32)
    \o ResourceDataEntryBytes([data_rva |-> 48, size |-> 2, codepage |-> 0, reserved |-> 0])
    \o <<7, 7>>

\* a root table with the two leaves ID(1) and ID(2)
TwoLeaves ==
    insert(insert(DefaultTable, ID(1), DataEntry(<<7, 7>>, 0, 0)), ID(2), DataEntry(<<8, 8>>, 0, 0))

\* The section build writes for TwoLeaves, with the size of the data of its i-th leaf
\* replaced by 100: the i-th ResourceDataEntry lies behind the header and the two
\* entries, its size 4 bytes into it.
LeafOutside(i, va) ==
    Patch(ResourceTable_build(TwoLeaves, va), 16 + 2 * 8 + (i - 1) * 16 + 4, LE32(100))

\* The resource sections a program parses: a section as build writes it, the same
\* section cut short by one byte, so that its leaf ends past the end, a section
\* with a repeated key, and sections with two leaves of which one ends past the end.
ResourceSections ==
    {[bytes |-> ResourceTable_build(Leaf(2), va), virtual_address |-> va] :
        va \in VirtualAddresses}
    \cup {[bytes |-> Slice(ResourceTable_build(Leaf(2), 0), 0, size(Leaf(2)) - 1),
           virtual_address |-> 0],
          [bytes |-> RepeatedKey, virtual_address |-> 0]}
    \cup {[bytes |-> LeafOutside(i, va), virtual_address |-> va] :
            i \in 1..2, va \in VirtualAddresses}

InitDirectory ==
    /\ image = NoImage
    /\ overflow_checks = FALSE
    /\ before = NoImage
    /\ calls = <<>>
    /\ directory = DefaultDirectory
    /\ input = <<>>
    /\ parsed = None

ParseDirectory(section) ==
    /\ \E r \in {ResourceDirectory_parse(section.bytes, 0, section.virtual_address)} :
          r.res = "Ok" /\ directory' = r.dir
    /\ UNCHANGED <<image, overflow_checks, before, calls, input, parsed>>

Insert(name, entry) ==
    /\ Len(directory.root.entries) < MaxEntries
    /\ directory' = [directory EXCEPT !.root = insert(@, name, entry)]
    /\ UNCHANGED <<image, overflow_checks, before, calls, input, parsed>>

InsertAt(name, entry, position) ==
    /\ Len(directory.root.entries) < MaxEntries
    /\ insert_at_ok(directory.root, name, position)
    /\ directory' = [directory EXCEPT !.root = insert_at(@, name, entry, position)]
    /\ UNCHANGED <<image, overflow_checks, before, calls, input, parsed>>

Remove(name) ==
    /\ has(directory.root, name)
    /\ directory' = [directory EXCEPT !.root = remove(@, name)]
    /\ UNCHANGED <<image, overflow_checks, before, calls, input, parsed>>

NextDirectory ==
    \/ \E section \in ResourceSections : ParseDirectory(section)
    \/ \E name \in Names, entry \in Entries : Insert(name, entry)
    \/ \E name \in Names, entry \in Entries, position \in 0..(MaxEntries - 1) :
          InsertAt(name, entry, position)
    \/ \E name \in Names : Remove(name)

SpecDirectory == InitDirectory /\ [][NextDirectory]_vars

\* ------------------------------------ state machine of ResourceDirectory::parse

\* a leaf below `levels` nested tables: the table of level n starts at 24 * (n - 1)
\* in the section build writes, its one entry at 16 bytes from there
RECURSIVE Nested(_)
Nested(levels) ==
    IF levels = 1 THEN Leaf(2)
    ELSE insert(DefaultTable, ID(1), TableEntry(Nested(levels - 1)))

\* the section with the data_entry_or_subdirectory_offset of the entry of the table
\* of level n replaced by a sub-directory offset (bit 31 set) of `target`
PointedAt(section, n, target) ==
    Patch(section, 24 * (n - 1) + 16 + 4, FlaggedBytes(Flagged(TRUE, target)))

\* The sections a program parses: directories of two and three levels as build
\* writes them, and the same with one sub-directory offset pointing at the table of
\* another level (its own table and its ancestors among them), at the data, at the
\* end of the section or past it.
SectionInputs ==
    UNION {{[bytes |-> ResourceTable_build(Nested(levels), va), virtual_address |-> va]}
           \cup {[bytes |-> PointedAt(ResourceTable_build(Nested(levels), va), n, target),
                  virtual_address |-> va] :
                    n \in 1..levels,
                    target \in {0, 24, 48, 72, size(Nested(levels)) - 8,
                                size(Nested(levels)), size(Nested(levels)) + 8}} :
           levels \in 2..3, va \in VirtualAddresses}

InitSection ==
    /\ image = NoImage
    /\ overflow_checks = FALSE
    /\ before = NoImage
    /\ calls = <<>>
    /\ directory = DefaultDirectory
    /\ input \in SectionInputs
    /\ parsed = None

ParseSection ==
    /\ ~parsed.some
    /\ \E r \in {ResourceDirectory_parse(input.bytes, 0, input.virtual_address)} :
          /\ directory' = r.dir
          /\ parsed' = Some([res |-> r.res])
    /\ UNCHANGED <<image, overflow_checks, before, calls, input>>

NextSection == ParseSection

SpecSection == InitSection /\ [][NextSection]_vars

\* ------------------------- state machine of the resources of a ResourceDirectory

\* the number of calls made on one directory
MaxOps == 2

\* a root table with one type table
OneType == insert(DefaultTable, ID(1), TableEntry(Leaf(2)))

\* "", and "<\u{e9}>"
Manifests == {<<>>, <<60, 233, 62>>}

\* an icon file with the given images: the directory, one 16-byte entry for every
\* image with its size and offset, and the images
RECURSIVE IconFileEntries(_, _, _)
IconFileEntries(images, i, offset) ==
    IF i > Len(images) THEN <<>>
    ELSE <<16, 16, 0, 0, 1, 0, 32, 0>> \o LE32(Len(images[i])) \o LE32(offset)
         \o IconFileEntries(images, i + 1, offset + Len(images[i]))

IconFile(images) ==
    IconDirectoryBytes(Len(images))
    \o IconFileEntries(images, 1, IconDirectorySize + 16 * Len(images))
    \o Flatten(images)

\* the icons a program sets: a file with one image, one with two, and no file at all
IconFiles == {IconFile(<<Fill(24, 3)>>), IconFile(<<Fill(24, 3), Fill(20, 5)>>), <<>>}

\* a root table with the icon 1 and a group that names it
WithIcon ==
    insert(insert(DefaultTable, ID(RT_ICON),
                  TableEntry(insert(DefaultTable, ID(1),
                                    TableEntry(insert(DefaultTable, ID(LANGUAGE_ID_EN_US),
                                                      DataEntry(Fill(24, 7), CODE_PAGE_ID_EN_US,
                                                                0)))))),
           ID(RT_GROUP_ICON),
           TableEntry(insert(DefaultTable, ID(7),
                             TableEntry(insert(DefaultTable, ID(LANGUAGE_ID_EN_US),
                                               DataEntry(IconDirectoryBytes(1)
                                                             \o Slice(Fill(24, 7), 6, 18)
                                                             \o LE16(1),
                                                         CODE_PAGE_ID_EN_US, 0))))))

\* the strings a program names resources with: "", "AB" and "\u{e9}"
Strings == {<<>>, <<65, 66>>, <<233>>}

\* the string tables of the version infos a program sets: none, a table without
\* strings, a string with an empty value, two strings, two tables, and strings with
\* "\u{e9}" as key or as value
StringTables ==
    {<<>>,
     <<VersionStringTable(<<48, 52>>, <<>>)>>,
     <<VersionStringTable(<<48, 52>>, <<VersionString(<<65>>, <<>>)>>)>>,
     <<VersionStringTable(<<48, 52>>, <<VersionString(<<65>>, <<98>>),
                                        VersionString(<<67, 68>>, <<100>>)>>)>>,
     <<VersionStringTable(<<48, 52>>, <<VersionString(<<65>>, <<98>>)>>),
       VersionStringTable(<<48, 53>>, <<>>)>>,
     <<VersionStringTable(<<48, 52>>, <<VersionString(<<233>>, <<98>>),
                                        VersionString(<<67>>, <<100>>)>>)>>,
     <<VersionStringTable(<<48, 52>>, <<VersionString(<<65>>, <<233>>),
                                        VersionString(<<67>>, <<100>>)>>)>>}

\* the translation lists: none, and en-US with the UTF-16 code page
Translations == {<<>>, <<VersionU16(LANGUAGE_ID_EN_US, CODE_PAGE_ID_EN_US)>>}

VersionInfos ==
    {VersionInfo(DefaultFixedFileInfo, strings, vars_) :
        strings \in StringTables, vars_ \in Translations}

\* one call on the directory: what was called with what, what it returned, and the
\* directory before the call
Call(op, arg, r) == [op |-> op, arg |-> arg, res |-> r.res, value |-> r.value, before |-> directory]

\* The directories a program starts from: an empty one, one with a type table, one
\* whose root holds data under the id RT_MANIFEST, and one with an icon.
StartDirectories ==
    {DefaultDirectory, ResourceDirectory(0, OneType), ResourceDirectory(0, Leaf(2)),
     ResourceDirectory(0, WithIcon)}

InitResources ==
    /\ image = NoImage
    /\ overflow_checks = FALSE
    /\ before = NoImage
    /\ calls = <<>>
    /\ directory \in StartDirectories
    /\ input = <<>>
    /\ parsed = None

SetManifest(manifest) ==
    /\ Len(calls) < MaxOps
    /\ \E r \in {set_manifest(directory, manifest)} :
          /\ directory' = r.dir
          /\ calls' = Append(calls, Call("set_manifest", manifest, r))
    /\ UNCHANGED <<image, overflow_checks, before, input, parsed>>

SetVersionInfo(version_info) ==
    /\ Len(calls) < MaxOps
    /\ \E r \in {set_version_info(directory, version_info)} :
          /\ directory' = r.dir
          /\ calls' = Append(calls, Call("set_version_info", version_info, r))
    /\ UNCHANGED <<image, overflow_checks, before, input, parsed>>

\* root.insert(ResourceEntryName::from_string(string), entry)
InsertName(string) ==
    /\ Len(calls) < MaxOps
    /\ \E r \in {Done([directory EXCEPT
                          !.root = insert(@, from_string(string), TableEntry(DefaultTable))])} :
          /\ directory' = r.dir
          /\ calls' = Append(calls, Call("insert", string, r))
    /\ UNCHANGED <<image, overflow_checks, before, input, parsed>>

SetMainIcon(icon) ==
    /\ Len(calls) < MaxOps
    /\ \E r \in {set_main_icon(directory, icon)} :
          /\ directory' = r.dir
          /\ calls' = Append(calls, Call("set_main_icon", icon, r))
    /\ UNCHANGED <<image, overflow_checks, before, input, parsed>>

RemoveMainIcon ==
    /\ Len(calls) < MaxOps
    /\ \E r \in {remove_main_icon(directory)} :
          /\ directory' = r.dir
          /\ calls' = Append(calls, Call("remove_main_icon", <<>>, r))
    /\ UNCHANGED <<image, overflow_checks, before, input, parsed>>

NextResources ==
    \/ \E string \in Strings : InsertName(string)
    \/ \E icon \in IconFiles : SetMainIcon(icon)
    \/ RemoveMainIcon
    \/ \E manifest \in Manifests : SetManifest(manifest)
    \/ \E version_info \in VersionInfos : SetVersionInfo(version_info)

SpecResources == InitResources /\ [][NextResources]_vars

\* ------------------------------------------ state machine of Image::set_subsystem

\* IMAGE_SUBSYSTEM_NATIVE, _WINDOWS_GUI, _WINDOWS_CUI, _EFI_APPLICATION
Subsystems == {1, 2, 3, 10}

InitSubsystem ==
    /\ image \in {Image_parse(bytes).img : bytes \in {FileBytes(f) : f \in InputFiles}}
    /\ overflow_checks = FALSE
    /\ before = image
    /\ calls = <<>>
    /\ directory = DefaultDirectory
    /\ input = <<>>
    /\ parsed = None

SetSubsystem(subsystem) ==
    /\ Len(calls) < MaxCalls
    /\ \E r \in {set_subsystem(image, subsystem)} :
          /\ image' = r.self
          /\ before' = image
          /\ calls' = Append(calls, [op |-> "set_subsystem", subsystem |-> subsystem,
                                     res |-> "Ok", value |-> r.previous_subsystem])
    /\ UNCHANGED <<overflow_checks, directory, input, parsed>>

NextSubsystem == \E subsystem \in Subsystems : SetSubsystem(subsystem)

SpecSubsystem == InitSubsystem /\ [][NextSubsystem]_vars

\* ------------------------------------- state machine of the icons of a directory

\* the entry of the icon table for one icon: a table with the bitmap as its leaf
IconEntry(id) ==
    TableEntry(insert(DefaultTable, ID(LANGUAGE_ID_EN_US),
                      DataEntry(Fill(24, id % 50), CODE_PAGE_ID_EN_US, 0)))

\* the entry of the group table for a group that names the icons `ids`
GroupEntry(ids) ==
    TableEntry(insert(DefaultTable, ID(LANGUAGE_ID_EN_US),
                      DataEntry(IconDirectoryBytes(Len(ids))
                                    \o Flatten([i \in 1..Len(ids) |->
                                                  Slice(Fill(24, ids[i] % 50), 6, 18)
                                                  \o LE16(ids[i] % 65536)]),
                                CODE_PAGE_ID_EN_US, 0)))

RECURSIVE IconTable(_), GroupTable(_)
IconTable(ids) ==
    IF ids = <<>> THEN DefaultTable
    ELSE insert(IconTable(SubSeq(ids, 1, Len(ids) - 1)), ID(ids[Len(ids)]),
                IconEntry(ids[Len(ids)]))

GroupTable(groups) ==
    IF groups = <<>> THEN DefaultTable
    ELSE insert(GroupTable(SubSeq(groups, 1, Len(groups) - 1)), groups[Len(groups)].name,
                GroupEntry(groups[Len(groups)].ids))

Group(name, ids) == [name |-> name, ids |-> ids]

\* a directory with the icons `ids` and the groups `groups`
Icons(ids, groups) ==
    ResourceDirectory(0, insert(insert(DefaultTable, ID(RT_ICON), TableEntry(IconTable(ids))),
                                ID(RT_GROUP_ICON), TableEntry(GroupTable(groups))))

\* The directories a program starts from: an empty one; one icon in one group; the
\* icon 65535, the largest id a group can name; a main icon and a group that share an
\* icon; two groups without a main icon that share an icon; and directories whose
\* RT_ICON or RT_GROUP_ICON entry is a data leaf.
IconDirectories ==
    {DefaultDirectory,
     Icons(<<1>>, <<Group(ID(7), <<1>>)>>),
     Icons(<<65535>>, <<Group(ID(7), <<65535>>)>>),
     Icons(<<1, 2>>, <<Group(from_string(MAINICON), <<1, 2>>), Group(ID(7), <<2>>)>>),
     Icons(<<1, 2, 3>>, <<Group(ID(7), <<1, 2>>), Group(ID(8), <<2, 3>>)>>),
     ResourceDirectory(0, insert(DefaultTable, ID(RT_ICON),
                                 DataEntry(<<7, 7>>, CODE_PAGE_ID_EN_US, 0))),
     ResourceDirectory(0, insert(DefaultTable, ID(RT_GROUP_ICON),
                                 DataEntry(<<7, 7>>, CODE_PAGE_ID_EN_US, 0))),
     ResourceDirectory(0, insert(insert(DefaultTable, ID(RT_ICON), TableEntry(IconTable(<<1>>))),
                                 ID(RT_GROUP_ICON),
                                 DataEntry(<<7, 7>>, CODE_PAGE_ID_EN_US, 0)))}

InitIcons ==
    /\ image = NoImage
    /\ overflow_checks = FALSE
    /\ before = NoImage
    /\ calls = <<>>
    /\ directory \in IconDirectories
    /\ input = <<>>
    /\ parsed = None

NextIcons ==
    \/ \E icon \in IconFiles : SetMainIcon(icon)
    \/ RemoveMainIcon

SpecIcons == InitIcons /\ [][NextIcons]_vars

\* ------------------------- state machine of the manifest and the version info

\* LANGUAGE_ID_EN_US and the ids of de-DE and fr-FR
Languages == {LANGUAGE_ID_EN_US, 1031, 1036}

\* the inner tables of a manifest or version table: one or two language entries, in
\* either order
LanguageLists ==
    {<<a>> : a \in Languages}
    \cup {languages \in Languages \X Languages : languages[1] # languages[2]}

\* the manifest of the language: "<" and one more character
ManifestLeaf(language) ==
    DataEntry(<<60, 48 + (language % 10)>>, CODE_PAGE_ID_EN_US, 0)

\* the version info of the language: no strings and the language as its translation
VersionLeaf(language) ==
    DataEntry(VersionInfo_build(VersionInfo(DefaultFixedFileInfo, <<>>,
                                            <<VersionU16(language, CODE_PAGE_ID_EN_US)>>)),
              CODE_PAGE_ID_EN_US, 0)

RECURSIVE LanguageTable(_, _)
LanguageTable(languages, type_) ==
    IF languages = <<>> THEN DefaultTable
    ELSE insert(LanguageTable(SubSeq(languages, 1, Len(languages) - 1), type_),
                ID(languages[Len(languages)]),
                IF type_ = RT_MANIFEST THEN ManifestLeaf(languages[Len(languages)])
                ELSE VersionLeaf(languages[Len(languages)]))

\* a directory with the type table `type_` that holds one inner table
Typed(type_, inner_table) ==
    ResourceDirectory(0, insert(DefaultTable, ID(type_),
                                TableEntry(insert(DefaultTable, ID(1),
                                                  TableEntry(inner_table)))))

\* The directories a program starts from: an empty one, and directories with a
\* manifest or a version info in one or two languages.
LeafDirectories ==
    {DefaultDirectory}
    \cup {Typed(RT_MANIFEST, LanguageTable(languages, RT_MANIFEST)) :
            languages \in LanguageLists}
    \cup {Typed(RT_VERSION, LanguageTable(languages, RT_VERSION)) :
            languages \in LanguageLists}

InitLeaves ==
    /\ image = NoImage
    /\ overflow_checks = FALSE
    /\ before = NoImage
    /\ calls = <<>>
    /\ directory \in LeafDirectories
    /\ input = <<>>
    /\ parsed = None

RemoveManifest ==
    /\ Len(calls) < MaxOps
    /\ \E r \in {remove_manifest(directory)} :
          /\ directory' = r.dir
          /\ calls' = Append(calls, Call("remove_manifest", <<>>, r))
    /\ UNCHANGED <<image, overflow_checks, before, input, parsed>>

RemoveVersionInfo ==
    /\ Len(calls) < MaxOps
    /\ \E r \in {remove_version_info(directory)} :
          /\ directory' = r.dir
          /\ calls' = Append(calls, Call("remove_version_info", <<>>, r))
    /\ UNCHANGED <<image, overflow_checks, before, input, parsed>>

NextLeaves ==
    \/ RemoveManifest
    \/ RemoveVersionInfo
    \/ \E manifest \in Manifests : SetManifest(manifest)

SpecLeaves == InitLeaves /\ [][NextLeaves]_vars

\* ------------------------------------------------- set_resource_directory

Called == calls # <<>>

LastCall == calls[Len(calls)]

Succeeded == Called /\ LastCall.res = "Ok"

\* the section of an image that holds its resource directory (0: none)
ResourceSection(img) ==
    IF Len(img.header_data_directory) < ResourceTable_ THEN 0
    ELSE old_resource_section(img.section_table, img.header_data_directory[ResourceTable_])

\* a data directory other than ResourceTable lies in the virtual extent of section i
SharedSection(img, i) ==
    \E k \in 1..Len(img.header_data_directory) :
        /\ k # ResourceTable_
        /\ img.header_data_directory[k].virtual_address >= img.section_table[i].virtual_address
        /\ img.header_data_directory[k].virtual_address
              < img.section_table[i].virtual_address + img.section_table[i].virtual_size

\* the sections of an image that have raw data
RawSections(img) ==
    {i \in 1..Len(img.section_table) : img.section_table[i].size_of_raw_data > 0}

\* section i ends where the raw data of the image's sections ends
IsLastByRawEnd(img, i) ==
    \A j \in RawSections(img) : RawEnd(img.section_table[j]) <= RawEnd(img.section_table[i])

\* C1: after a successful set_resource_directory(d) on a parsed PE32 or PE32+ image,
\* resource_directory() is Some(d) and parsing data() again succeeds and gives an
\* Image equal to the one held (headers, data directories, section table and resource
\* directory with its virtual_address).
C1_RoundTrip ==
    Succeeded =>
        /\ image.resource_directory = Some(LastCall.d)
        /\ LET p == Image_parse(image.image)
           IN p.res = "Ok" /\ ImageEq(p.img, image)

\* C2: when set_resource_directory returns an error, the Image is what it was before
\* the call: bytes, headers, data directories, section table and resource directory.
C2_ErrorLeavesImage == (Called /\ LastCall.res = "Err") => image = before

\* an error returned after the copies of the headers were changed for a new section
C2_Witness ==
    /\ Called
    /\ LastCall.res = "Err"
    /\ LastCall.err = <<"NotEnoughSpaceInHeader">>
    /\ LastCall.path = "append"

\* the existing resource section can hold d, is followed by raw data of another
\* section and is used by the resource directory alone
C3_Case ==
    /\ Called
    /\ LastCall.res # "Err"
    /\ LET i == ResourceSection(before)
       IN /\ i # 0
          /\ before.section_table[i].size_of_raw_data >= ResourceDirectory_size(LastCall.d)
          /\ ~IsLastByRawEnd(before, i)
          /\ ~SharedSection(before, i)

\* C3: reuse in place: in the case above the call adds no section, changes no section
\* header and no length, and the bytes of the section after the first d.size() bytes
\* are the bytes that were at those offsets.
C3_ReuseInPlace ==
    C3_Case =>
        /\ LastCall.res = "Ok"
        /\ image.section_table = before.section_table
        /\ Len(image.image) = Len(before.image)
        /\ LET section == before.section_table[ResourceSection(before)]
           IN \A k \in (section.pointer_to_raw_data + ResourceDirectory_size(LastCall.d))
                       ..(RawEnd(section) - 1) :
                 image.image[k + 1] = before.image[k + 1]

\* the existing resource section is used by another data directory
C4_Case ==
    /\ Succeeded
    /\ ResourceSection(before) # 0
    /\ SharedSection(before, ResourceSection(before))

\* C4: a resource section used by another data directory is never overwritten: its
\* header and its raw bytes in data() are the same after the call, the number of
\* sections grows by one and the ResourceTable directory points into the new section.
C4_SharedSectionKept ==
    C4_Case =>
        LET i == ResourceSection(before)
            section == before.section_table[i]
            added == image.section_table[Len(image.section_table)]
        IN /\ image.section_table[i] = section
           /\ Slice(image.image, section.pointer_to_raw_data, RawEnd(section))
                = Slice(before.image, section.pointer_to_raw_data, RawEnd(section))
           /\ image.coff_header.number_of_sections = before.coff_header.number_of_sections + 1
           /\ Len(image.section_table) = Len(before.section_table) + 1
           /\ Covers(added, image.header_data_directory[ResourceTable_].virtual_address)

\* What C5 says of the section the append path adds, with `compared` the sections
\* whose raw end its pointer_to_raw_data is compared with.
AppendedAfter(compared) ==
    LET added == image.section_table[Len(image.section_table)]
        new_size == ResourceDirectory_size(LastCall.d)
    IN /\ Len(image.section_table) = Len(before.section_table) + 1
       /\ SubSeq(image.section_table, 1, Len(before.section_table)) = before.section_table
       /\ added.name = <<46, 112, 101, 100, 97, 116, 97, 0>>
       /\ added.characteristics = 1073741888
       /\ added.virtual_address % image.windows_header.section_alignment = 0
       /\ \A i \in 1..Len(before.section_table) :
             added.virtual_address >= VirtualEnd(before.section_table[i])
       /\ \A i \in compared :
             added.pointer_to_raw_data >= RawEnd(before.section_table[i])
       /\ added.size_of_raw_data = new_size
       /\ image.header_data_directory[ResourceTable_]
            = ImageDataDirectory(added.virtual_address, new_size)

\* C5 as the specification states it: the raw data of the new section starts at or
\* past pointer_to_raw_data + size_of_raw_data of every section there was.
C5_AppendedSection_AsStated ==
    (Succeeded /\ LastCall.path = "append") => AppendedAfter(1..Len(before.section_table))

\* C5: on the append path one section header is added after the existing ones, named
\* ".pedata" with characteristics 0x40000040; its virtual address is section-aligned
\* and at or past the virtual end of every section there was, its raw data starts at
\* or past the raw end of every section there was that has raw data, its
\* size_of_raw_data is d.size(), and the ResourceTable directory is (its virtual
\* address, d.size()).
C5_AppendedSection ==
    (Succeeded /\ LastCall.path = "append") => AppendedAfter(RawSections(before))

\* a section was appended to an image that has a section without raw data whose
\* pointer_to_raw_data lies past the raw data of the other sections
C5_Witness ==
    /\ Succeeded
    /\ LastCall.path = "append"
    /\ \E i \in 1..Len(before.section_table) :
          /\ before.section_table[i].size_of_raw_data = 0
          /\ before.section_table[i].pointer_to_raw_data
                > image.section_table[Len(image.section_table)].pointer_to_raw_data

\* C6: an image with fewer than three data directories has no resource directory; a
\* successful set_resource_directory adds the missing entries at 8 bytes of header
\* space each, sets number_of_rva_and_sizes to the new count and writes a header that
\* parses back to the data directories and the section table the Image holds.
C6_FewDirectories ==
    /\ (~Called /\ Len(image.header_data_directory) < 3) => ~image.resource_directory.some
    /\ (Succeeded /\ Len(before.header_data_directory) < 3) =>
          /\ Len(image.header_data_directory) = 3
          /\ SubSeq(image.header_data_directory, 1, Len(before.header_data_directory))
               = before.header_data_directory
          /\ LastCall.required_header_space
               = 8 * (3 - Len(before.header_data_directory))
                 + (IF LastCall.path = "append" THEN 40 ELSE 0)
          /\ image.windows_header.number_of_rva_and_sizes = 3
          /\ LET p == Image_parse(image.image)
             IN /\ p.res = "Ok"
                /\ p.img.header_data_directory = image.header_data_directory
                /\ p.img.section_table = image.section_table

\* C7: two successful calls in a row with the same directory leave data() as long
\* after the second call as after the first.
C7_SameLength ==
    (/\ Len(calls) >= 2
     /\ LastCall.res = "Ok"
     /\ calls[Len(calls) - 1].res = "Ok"
     /\ calls[Len(calls) - 1].d = LastCall.d) =>
        Len(image.image) = Len(before.image)

\* the offset of the first raw data of an image's sections
FirstRawOffset(img) ==
    IF RawSections(img) = {} THEN Len(img.image)
    ELSE CHOOSE o \in {img.section_table[i].pointer_to_raw_data : i \in RawSections(img)} :
            \A i \in RawSections(img) : o <= img.section_table[i].pointer_to_raw_data

\* the end of the last raw data of an image's sections
LastRawEnd(img) ==
    CHOOSE e \in {RawEnd(img.section_table[i]) : i \in RawSections(img)} :
        \A i \in RawSections(img) : e >= RawEnd(img.section_table[i])

\* C8: when the first raw data of the sections starts before directories_offset plus
\* the header space the call needs, also when it starts before directories_offset,
\* the call returns NotEnoughSpaceInHeader.
C8_NotEnoughSpace ==
    (/\ Called
     /\ LastCall.path # "none"
     /\ FirstRawOffset(before) < before.directories_offset + LastCall.required_header_space) =>
        (LastCall.res = "Err" /\ LastCall.err = <<"NotEnoughSpaceInHeader">>)

\* C9: the call returns InvalidSectionRange(end, len) exactly when the largest raw end
\* of the sections with raw data is greater than the length of the image, and the
\* error carries that end and that length.
C9_InvalidSectionRange ==
    Called =>
        LET beyond == RawSections(before) # {} /\ LastRawEnd(before) > Len(before.image)
        IN /\ beyond =>
                 /\ LastCall.res = "Err"
                 /\ LastCall.err = <<"InvalidSectionRange", LastRawEnd(before), Len(before.image)>>
           /\ ~beyond => (LastCall.err = <<>> \/ LastCall.err[1] # "InvalidSectionRange")

\* the call failed on the section range
C9_Witness ==
    /\ Called
    /\ LastCall.res = "Err"
    /\ Len(LastCall.err) = 3
    /\ LastCall.err[2] > LastCall.err[3]

\* ------------------------------------------------------ ResourceDirectory

\* C10: a directory obtained by parse, insert, insert_at and remove, built for any
\* virtual address and parsed back at offset 0 for that address, parses and equals
\* the directory: the same root table, and the same directory when the address is
\* the directory's own.
C10_BuildParse ==
    \A va \in VirtualAddresses :
        LET r == ResourceDirectory_parse(ResourceDirectory_build(directory, va), 0, va)
        IN /\ r.res = "Ok"
           /\ TableEq(r.dir.root, directory.root)
           /\ (va = directory.virtual_address => DirEq(r.dir, directory))

\* ------------------------------------------------- claims on ResourceDirectory

\* C11: for every directory d and every virtual address va, the byte vector that
\* d.build(va) returns is exactly d.size() bytes long.
C11_BuildLength ==
    \A va \in VirtualAddresses :
        Len(ResourceDirectory_build(directory, va)) = ResourceDirectory_size(directory)

\* a root table holding a sub-table, a leaf and a string name
C11_Witness ==
    /\ \E i \in 1..Len(directory.root.entries) : directory.root.entries[i].entry.kind = "Table"
    /\ \E i \in 1..Len(directory.root.entries) : directory.root.entries[i].entry.kind = "Data"
    /\ \E i \in 1..Len(directory.root.entries) : directory.root.entries[i].name.kind = "Name"

\* the number of keys of one kind in a table
KeyCount(t, kind) == Cardinality({i \in 1..Len(t.entries) : t.entries[i].name.kind = kind})

\* the header counts of a table and of every table below it agree with its keys
RECURSIVE CountsAgree(_)
CountsAgree(t) ==
    /\ t.data.number_of_name_entries = KeyCount(t, "Name")
    /\ t.data.number_of_id_entries = KeyCount(t, "ID")
    /\ \A i \in 1..Len(t.entries) :
          t.entries[i].entry.kind = "Table" => CountsAgree(t.entries[i].entry.table)

\* C12: in every table reachable by parse followed by insert, insert_at and remove,
\* number_of_name_entries is the number of Name keys and number_of_id_entries the
\* number of ID keys, also right after a parse that skipped a leaf or met a
\* repeated key.
C12_HeaderCounts == CountsAgree(directory.root)

\* the i-th entry written after the 16-byte header of the root table carries the key
\* `name`: its id, or the offset of its string with the high bit set
Written(b, i, name) ==
    LET id == RdFlagged(b, 16 + 8 * (i - 1))
    IN IF name.kind = "ID" THEN ~id.hi /\ id.lo = name.id
       ELSE id.hi /\ Slice(b, id.lo, id.lo + Len(name.data)) = name.data

IsName(name) == name.kind = "Name"

IsID(name) == name.kind = "ID"

\* the keys of a table in the order of its map
Keys(t) == [i \in 1..Len(t.entries) |-> t.entries[i].name]

\* C13: in the output of build, within a table all entries with a Name key are written
\* before all entries with an ID key, whatever the order of insertion, and each of
\* the two groups keeps the order of insertion.
C13_NamesBeforeIds ==
    \A va \in VirtualAddresses :
        LET b == ResourceDirectory_build(directory, va)
            names == SelectSeq(Keys(directory.root), IsName)
            ids == SelectSeq(Keys(directory.root), IsID)
        IN /\ \A k \in 1..Len(names) : Written(b, k, names[k])
           /\ \A k \in 1..Len(ids) : Written(b, Len(names) + k, ids[k])

\* ----------------------------------------------------- claims on Image::parse

\* the input holds `n` bytes at offset `off`
Holds(b, off, n) == off + n <= Len(b)

\* The malformed headers the specification lists.  Each case but the first and the
\* last takes the header structure holding the field to be present and the fields
\* before it to be valid.
MalformedHeader(b) ==
    LET pe == Rd32(b, PE_PTR_OFFSET)
        size_of_optional_header == Rd16(b, pe + 4 + 16)
        magic == Rd16(b, pe + 24)
        dos_ok == Holds(b, 0, 64) /\ Rd16(b, 0) = PE_DOS_MAGIC
        pe_ok == dos_ok /\ Holds(b, pe, 4) /\ Rd32(b, pe) = PE_NT_SIGNATURE
        coff_ok == pe_ok /\ Holds(b, pe + 4, 20) /\ size_of_optional_header >= 24
        std_ok == coff_ok /\ Holds(b, pe + 24, 24)
        format_ok == /\ std_ok
                     /\ \/ magic = PE_32_MAGIC /\ size_of_optional_header >= 96
                        \/ magic = PE_64_MAGIC /\ size_of_optional_header >= 112
    IN \/ Len(b) < 64
       \/ Holds(b, 0, 2) /\ Rd16(b, 0) # PE_DOS_MAGIC
       \/ dos_ok /\ Holds(b, pe, 4) /\ Rd32(b, pe) # PE_NT_SIGNATURE
       \/ pe_ok /\ Holds(b, pe + 4, 20) /\ size_of_optional_header < 24
       \/ std_ok /\ magic \notin {PE_32_MAGIC, PE_64_MAGIC}
       \/ std_ok /\ magic = PE_32_MAGIC /\ size_of_optional_header < 96
       \/ std_ok /\ magic = PE_64_MAGIC /\ size_of_optional_header < 112
       \/ format_ok /\ Len(b) < pe + 24 + size_of_optional_header

\* C14: for an input shorter than the DOS header, with a wrong DOS magic or PE
\* signature, with size_of_optional_header < 24, with an optional header magic that
\* is neither PE32 nor PE32+, with an optional header too small for its format, or
\* cut short before the end of the optional header, Image::parse returns
\* Err(InvalidHeader): no other kind of error and no abort.
C14_InvalidHeader ==
    (parsed.some /\ MalformedHeader(input))
        => (parsed.value.res = "Err" /\ parsed.value.err = "InvalidHeader")

\* the leaves of the root table of a section as its bytes describe them: the indices
\* of the entries that name data, the key of such an entry and whether its data,
\* resolved as parse resolves it, ends inside the section
SectionLeaves(s) ==
    LET root == RdResourceDirectoryTable(s.bytes, 0)
    IN {i \in 1..(root.number_of_name_entries + root.number_of_id_entries) :
          ~RdFlagged(s.bytes, 16 + 8 * (i - 1) + 4).hi}

SectionKey(s, i) == ID(Rd32(s.bytes, 16 + 8 * (i - 1)))

SectionLeafInside(s, i) ==
    LET description == Rd32(s.bytes, 16 + 8 * (i - 1) + 4)
        signed == Rd32(s.bytes, description) - s.virtual_address
        address == IF signed < 0 THEN signed + 16777216 ELSE signed
    IN address + Rd32(s.bytes, description + 4) <= Len(s.bytes)

\* C15: a leaf whose resolved address plus size exceeds the length of the image is
\* skipped without failing: parse still returns Ok, and every other entry of the same
\* table whose data lies inside the image is present in the result.
C15_SkippedLeaf ==
    [][\A s \in ResourceSections :
          (\E i \in SectionLeaves(s) : ~SectionLeafInside(s, i))
          => /\ ResourceDirectory_parse(s.bytes, 0, s.virtual_address).res = "Ok"
             /\ ParseDirectory(s)
                => \A i \in SectionLeaves(s) :
                      SectionLeafInside(s, i) => has(directory'.root, SectionKey(s, i))]_vars

\* ------------------------------------------ claims on the resources of a directory

\* the data at root -> ID(RT_MANIFEST) -> ID(1) -> ID(LANGUAGE_ID_EN_US), if there
ManifestData(d) ==
    IF ~has(d.root, ID(RT_MANIFEST)) \/ get(d.root, ID(RT_MANIFEST)).kind # "Table" THEN None
    ELSE LET manifest_table == get(d.root, ID(RT_MANIFEST)).table
         IN IF ~has(manifest_table, ID(1)) \/ get(manifest_table, ID(1)).kind # "Table"
            THEN None
            ELSE LET inner_table == get(manifest_table, ID(1)).table
                 IN IF ~has(inner_table, ID(LANGUAGE_ID_EN_US))
                       \/ get(inner_table, ID(LANGUAGE_ID_EN_US)).kind # "Data"
                    THEN None
                    ELSE Some(get(inner_table, ID(LANGUAGE_ID_EN_US)).data)

\* C16: for every directory, the one with an empty root table included, and every
\* string m, set_manifest(m) returns Ok and get_manifest() then returns Some(m); the
\* manifest is stored at root -> ID(RT_MANIFEST) -> ID(1) -> ID(LANGUAGE_ID_EN_US).
C16_SetGetManifest ==
    (Called /\ LastCall.op = "set_manifest")
        => /\ LastCall.res = "Ok"
           /\ get_manifest(directory).res = "Ok"
           /\ get_manifest(directory).value = Some(LastCall.arg)
           /\ ManifestData(directory) = Some(as_bytes(LastCall.arg))

\* C17: for every VersionInfo v, VersionInfo::parse(v.build()) succeeds and equals v:
\* tables without strings, strings with an empty value and an empty translation list
\* included.
C17_VersionInfoRoundTrip ==
    (Called /\ LastCall.op = "set_version_info")
        => LET r == VersionInfo_parse(VersionInfo_build(LastCall.arg))
           IN r.res = "Ok" /\ VersionInfoEq(r.version_info, LastCall.arg)

\* C18: for every string s, not only ASCII ones,
\* ResourceEntryName::from_string(s).to_string() is Some(s), and the 2-byte length
\* prefix of the name is the number of UTF-16 code units that follow it.
C18_NameRoundTrip ==
    (Called /\ LastCall.op = "insert")
        => LET name == from_string(LastCall.arg)
           IN /\ to_string(name).res = "Ok"
              /\ to_string(name).value = Some(LastCall.arg)
              /\ Rd16(name.data, 0) * 2 = Len(name.data) - 2

\* the group table of a directory holds a MAINICON group
HasMainIcon(d) ==
    /\ has(d.root, ID(RT_GROUP_ICON))
    /\ get(d.root, ID(RT_GROUP_ICON)).kind = "Table"
    /\ has(get(d.root, ID(RT_GROUP_ICON)).table, from_string(MAINICON))

\* the last two calls were a successful set_main_icon on a directory without a
\* MAINICON group and then remove_main_icon
SetThenRemoved ==
    /\ Len(calls) >= 2
    /\ LastCall.op = "remove_main_icon"
    /\ calls[Len(calls) - 1].op = "set_main_icon"
    /\ calls[Len(calls) - 1].res = "Ok"
    /\ ~HasMainIcon(calls[Len(calls) - 1].before)

\* C19: for a directory that held no MAINICON group, one without any RT_ICON or
\* RT_GROUP_ICON table included, set_main_icon(x) followed by remove_main_icon()
\* leaves size() as it was before: the group entry, the icons added and every parent
\* table left empty are removed.
C19_SetRemoveMainIcon ==
    SetThenRemoved
        => /\ LastCall.res = "Ok"
           /\ ResourceDirectory_size(directory)
                  = ResourceDirectory_size(calls[Len(calls) - 1].before)


\* ------------------------------------------------------------ directories_offset

\* the first byte past the section table that data() describes
SectionTableEnd(img) ==
    img.coff_header_offset + 20
        + Rd16(img.image, img.coff_header_offset + 16)
        + 40 * Rd16(img.image, img.coff_header_offset + 2)

\* C20: after every successful set_resource_directory call on one Image, the retained
\* directories_offset is the first byte past the section table of the current data():
\* coff_header_offset + 20 + size_of_optional_header + 40 * number_of_sections.
C20_DirectoriesOffset ==
    Succeeded => image.directories_offset = SectionTableEnd(image)


\* ------------------------------------------ the sections a call does not rewrite

\* the section whose raw data the last call wrote: the appended one, else the
\* resource section that was rewritten in place
WrittenSection ==
    IF LastCall.path = "append" THEN Len(image.section_table) ELSE ResourceSection(before)

\* the bytes of the old image past the raw data of its sections
Overlay(img) ==
    Slice(img.image, IF RawSections(img) = {} THEN Len(img.image) ELSE LastRawEnd(img),
          Len(img.image))

\* C21: after a successful set_resource_directory, every section header other than the
\* rewritten or appended resource section still names its own data (the bytes of the
\* new data() in its raw range are the bytes of the old data() in that range), and the
\* bytes of the old image past the last section's raw end are the suffix of the new one.
C21_SectionsKeepData ==
    Succeeded =>
        /\ \A i \in RawSections(image) \ {WrittenSection} :
              LET h == image.section_table[i]
              IN /\ RawEnd(h) <= Len(image.image)
                 /\ RawEnd(h) <= Len(before.image)
                 /\ Slice(image.image, h.pointer_to_raw_data, RawEnd(h))
                      = Slice(before.image, h.pointer_to_raw_data, RawEnd(h))
        /\ Len(image.image) >= Len(Overlay(before))
        /\ Slice(image.image, Len(image.image) - Len(Overlay(before)), Len(image.image))
             = Overlay(before)


\* ------------------------------------------------------------ extend in place

\* the existing resource section is the last section by raw-data end, is not shared
\* with another data directory, and d is larger than its size_of_raw_data
C22_Case ==
    /\ Succeeded
    /\ LET i == ResourceSection(before)
       IN /\ i # 0
          /\ IsLastByRawEnd(before, i)
          /\ ~SharedSection(before, i)
          /\ ResourceDirectory_size(LastCall.d) > before.section_table[i].size_of_raw_data

\* C22: extend in place: in the case above the section has afterwards
\* size_of_raw_data == d.size() and virtual_size == align_up(d.size(),
\* section_alignment), and the size of the ResourceTable data directory is d.size().
C22_ExtendInPlace ==
    C22_Case =>
        LET section == image.section_table[ResourceSection(before)]
            new_size == ResourceDirectory_size(LastCall.d)
        IN /\ section.size_of_raw_data = new_size
           /\ section.virtual_size
                = aligned_to(new_size, before.windows_header.section_alignment)
           /\ image.header_data_directory[ResourceTable_].size = new_size


\* ------------------------------------------------------------ size_of_image

\* C23: after a successful set_resource_directory(d), size_of_image has grown by the
\* virtual_size of the appended section, align_up(d.size(), section_alignment), when
\* a section was appended and by 0 otherwise; check_sum is 0 in both cases.
C23_SizeOfImage ==
    Succeeded =>
        LET grown == image.windows_header.size_of_image
                        - before.windows_header.size_of_image
        IN /\ image.windows_header.check_sum = 0
           /\ IF LastCall.path = "append"
              THEN /\ grown = image.section_table[Len(image.section_table)].virtual_size
                   /\ grown = aligned_to(ResourceDirectory_size(LastCall.d),
                                         before.windows_header.section_alignment)
              ELSE grown = 0


\* ------------------------------------------------------------ set_subsystem

\* the offsets in data() of the check_sum and subsystem fields of the Windows header
SubsystemFields(img) ==
    LET windows_header_offset ==
            img.optional_header_dd_offset - WindowsHeaderSize(img.windows_header.uxx)
    IN (windows_header_offset + img.windows_header.uxx + 32)
          ..(windows_header_offset + img.windows_header.uxx + 37)

\* C24: on a PE32 and on a PE32+ image, set_subsystem(s) returns the previous
\* subsystem, leaves the length of data() unchanged, changes no byte of data() outside
\* the subsystem and check_sum fields of the Windows header, and afterwards
\* Image::parse(data()) succeeds with subsystem() == s.
C24_SetSubsystem ==
    Called =>
        /\ LastCall.value = before.windows_header.subsystem
        /\ Len(image.image) = Len(before.image)
        /\ \A k \in 0..(Len(before.image) - 1) :
              k \notin SubsystemFields(before) => image.image[k + 1] = before.image[k + 1]
        /\ LET p == Image_parse(image.image)
           IN p.res = "Ok" /\ p.img.windows_header.subsystem = LastCall.subsystem


\* ------------------------------------------------- claims on ResourceTable::remove

\* the entries of a map without the entry of the key `name`, in their order
Without(entries, name) == SelectSeq(entries, LAMBDA e : e.name # name)

\* C28: ResourceTable::remove(name) changes nothing but the removed entry: the
\* entries that remain keep their values and their relative order (so Name keys that
\* precede the ID keys still do, and build writes the entries in the order they were
\* inserted in).
C28_RemoveKeepsOrder ==
    [][\A name \in Names :
          Remove(name) => directory'.root.entries = Without(directory.root.entries, name)]_vars

\* ------------------------------------------- claims on ResourceDirectory::parse

\* C25: ResourceDirectory::parse ends with a value or an error on every input, also
\* on a directory in which a sub-directory offset points at its own table or at an
\* ancestor table: the recursion never goes deeper than a fixed bound and the
\* process does not abort.
C25_ParseTerminates ==
    parsed.some => parsed.value.res \in {"Ok", "Err"}


\* ------------------------------------------------------ claims on the main icon

\* the table under the root entry `type_` of a directory, an empty one without it
TypeTable(d, type_) ==
    IF has(d.root, ID(type_)) /\ get(d.root, ID(type_)).kind = "Table"
    THEN get(d.root, ID(type_)).table
    ELSE DefaultTable

KeysOf(t) == {t.entries[i].name : i \in 1..Len(t.entries)}

\* the largest ID key of a table, 0 without one
MaxKey(t) ==
    LET ids == {name.id : name \in {k \in KeysOf(t) : k.kind = "ID"}}
    IN IF ids = {} THEN 0 ELSE CHOOSE m \in ids : \A n \in ids : n <= m

\* the id in the i-th entry of the icon directory `data`
ListedId(data, i) ==
    Rd16(data, IconDirectorySize + (i - 1) * IconDirectoryEntrySize + 12)

\* C26: set_main_icon with n bitmaps on a directory whose RT_ICON table has the ID
\* keys K adds exactly the keys max(K)+1 .. max(K)+n, leaves every RT_ICON entry and
\* every other group there was unchanged, and stores at position 0 of RT_GROUP_ICON a
\* MAINICON group whose directory lists those n ids in order, each the key of the
\* RT_ICON entry that holds that bitmap.
C26_SetMainIcon ==
    (Called /\ LastCall.op = "set_main_icon" /\ LastCall.res = "Ok") =>
        LET old == TypeTable(LastCall.before, RT_ICON)
            new == TypeTable(directory, RT_ICON)
            old_groups == TypeTable(LastCall.before, RT_GROUP_ICON)
            groups == TypeTable(directory, RT_GROUP_ICON)
            bitmaps == icons(LastCall.arg).icons
            n == Len(bitmaps)
            m == MaxKey(old)
            data == groups.entries[1].entry.table.entries[1].entry.data
        IN /\ KeysOf(new) = KeysOf(old) \cup {ID(m + i) : i \in 1..n}
           /\ \A name \in KeysOf(old) : get(new, name) = get(old, name)
           /\ KeysOf(groups) = KeysOf(old_groups) \cup {from_string(MAINICON)}
           /\ \A name \in KeysOf(old_groups) \ {from_string(MAINICON)} :
                 get(groups, name) = get(old_groups, name)
           /\ groups.entries[1].name = from_string(MAINICON)
           /\ Len(data) = IconDirectorySize + n * IconDirectoryEntrySize
           /\ Rd16(data, 4) = n
           /\ \A i \in 1..n :
                 /\ ListedId(data, i) = m + i
                 /\ get(new, ID(m + i)).table.entries[1].entry.data = bitmaps[i]


\* the group remove_main_icon removes from a group table: MAINICON, else the first
RemovedGroup(groups) ==
    IF from_string(MAINICON) \in KeysOf(groups) THEN from_string(MAINICON)
    ELSE groups.entries[1].name

\* the icon ids the icon directory of a group names
Referenced(groups, name) ==
    LET data == get(groups, name).table.entries[1].entry.data
    IN {ListedId(data, i) : i \in 1..Rd16(data, 4)}

\* the icon ids the groups other than `name` name
ReferencedByOthers(groups, name) ==
    UNION {Referenced(groups, other) : other \in KeysOf(groups) \ {name}}

\* remove_main_icon has removed a group of a directory with an icon table
C27_Case ==
    /\ Called
    /\ LastCall.op = "remove_main_icon"
    /\ LastCall.res = "Ok"
    /\ TypeTable(LastCall.before, RT_GROUP_ICON).entries # <<>>
    /\ has(LastCall.before.root, ID(RT_ICON))
    /\ get(LastCall.before.root, ID(RT_ICON)).kind = "Table"

\* C27: remove_main_icon removes from RT_ICON exactly the icons that the removed
\* group (MAINICON, else the first group) names and that no other group of
\* RT_GROUP_ICON names; every icon a remaining group names is still there, and the
\* entries that stay are unchanged.
C27_RemoveMainIcon ==
    C27_Case =>
        LET old == TypeTable(LastCall.before, RT_ICON)
            new == TypeTable(directory, RT_ICON)
            old_groups == TypeTable(LastCall.before, RT_GROUP_ICON)
            name == RemovedGroup(old_groups)
            removed == Referenced(old_groups, name) \ ReferencedByOthers(old_groups, name)
        IN /\ KeysOf(new) = KeysOf(old) \ {ID(id) : id \in removed}
           /\ \A k \in KeysOf(new) : get(new, k) = get(old, k)
           /\ \A id \in ReferencedByOthers(old_groups, name) :
                 ID(id) \in KeysOf(old) => ID(id) \in KeysOf(new)
           /\ KeysOf(TypeTable(directory, RT_GROUP_ICON)) = KeysOf(old_groups) \ {name}

\* a group was removed that shares an icon with a remaining group: the icon only it
\* names is gone, the shared one is kept
C27_Witness ==
    /\ C27_Case
    /\ LET old == TypeTable(LastCall.before, RT_ICON)
           new == TypeTable(directory, RT_ICON)
           old_groups == TypeTable(LastCall.before, RT_GROUP_ICON)
           name == RemovedGroup(old_groups)
       IN /\ \E id \in Referenced(old_groups, name) \cap ReferencedByOthers(old_groups, name) :
                ID(id) \in KeysOf(new)
          /\ \E id \in Referenced(old_groups, name) :
                ID(id) \in KeysOf(old) /\ ID(id) \notin KeysOf(new)


\* C30: when set_main_icon returns an error (icon bytes that ToIcon::icons rejects, or
\* an RT_ICON or RT_GROUP_ICON root entry that is a data leaf), the directory equals
\* its value before the call: no empty RT_ICON table and no icon has been added.
C30_ErrorLeavesDirectory ==
    (Called /\ LastCall.op = "set_main_icon" /\ LastCall.res = "Err") =>
        DirEq(directory, LastCall.before)

\* ----------------------------------- claims on remove_manifest, remove_version_info

\* the getter of the resource a remove call is about
Getter(op, d) == IF op = "remove_manifest" THEN get_manifest(d) ELSE get_version_info(d)

\* the key of the leaf the getters read in an inner table: the entry of
\* LANGUAGE_ID_EN_US, or else the first one
ReadLeaf(inner_table) ==
    IF ID(LANGUAGE_ID_EN_US) \in KeysOf(inner_table) THEN ID(LANGUAGE_ID_EN_US)
    ELSE inner_table.entries[1].name

\* a remove call succeeded on a directory for which the getter returned Some(x)
C29_Case ==
    /\ Called
    /\ LastCall.op \in {"remove_manifest", "remove_version_info"}
    /\ LastCall.res = "Ok"
    /\ Getter(LastCall.op, LastCall.before).res = "Ok"
    /\ Getter(LastCall.op, LastCall.before).value.some

\* C29: remove_manifest and remove_version_info remove the very leaf the getter
\* returns: when the getter returned Some(x) before a successful remove, the leaf it
\* read is no longer in the directory afterwards and the getter does not return x,
\* also when the inner table holds several languages and LANGUAGE_ID_EN_US is not
\* the first.
C29_RemovesTheLeafRead ==
    C29_Case =>
        LET type_ == IF LastCall.op = "remove_manifest" THEN RT_MANIFEST ELSE RT_VERSION
            old == TypeTable(LastCall.before, type_)
            new == TypeTable(directory, type_)
            inner == old.entries[1].name
            leaf == ReadLeaf(old.entries[1].entry.table)
        IN /\ ~(/\ inner \in KeysOf(new)
                /\ leaf \in KeysOf(get(new, inner).table))
           /\ Getter(LastCall.op, directory).value
                # Getter(LastCall.op, LastCall.before).value

====
